---- MODULE Spec2Model ----
(***************************************************************************)
(* RouteE Compass: labelled search tree, Pareto pruning and frontier pop,  *)
(* LCSS map matching, the batch scheduler, the batch run and the summary   *)
(* of a route.                                                             *)
(*                                                                         *)
(* SearchTreeNode, prune_tree, test_dominates, FrontierInstance::pop_new,  *)
(* the LCSS matcher (match_trace, lcss_ops, TrajectorySegment, compress),  *)
(* apply_load_balancing_policy, run_batch_with_responses, run_batch and    *)
(* generate_route_output are translated from the sources.  The             *)
(* SearchTree container itself (set_root / insert / remove / get /         *)
(* get_labels_iter / len / is_empty), the Label type and the priority      *)
(* queue are described by the specification document only and are         *)
(* modelled from its section 3, 4.1, 4.2 and 4.3; the map, its geometry    *)
(* and the graph searches of the matcher are inputs of the calls.          *)
(***************************************************************************)
EXTENDS Integers, Sequences, FiniteSets, TLC

(* ------------------------------ bounds --------------------------------- *)
NumVertices == 2
NumStates == 2
MaxCost == 1
MaxNodes == 3

VertexIds == 0 .. (NumVertices - 1)
States == 0 .. (NumStates - 1)
Costs == 0 .. MaxCost

(* ------------------------------ labels --------------------------------- *)
\* Label::Vertex(v) carries no state; Label::VertexWithIntState{v, s} does.
NoState == -1

VertexLabels == [vertex_id : VertexIds, state : {NoState}]

IntStateLabels == [vertex_id : VertexIds, state : States]

Labels == VertexLabels \cup IntStateLabels

NoLabel == [vertex_id |-> -1, state |-> NoState]

\* the labels a search produces under one label model
LabelsOf(lm) == IF lm = "vertex" THEN VertexLabels ELSE IntStateLabels

does_not_require_pruning(label) == label.state = NoState

\* SocLabelModel::compare: s1.cmp(s2)
compare(prev, next) ==
    IF prev.state < next.state THEN "Less"
    ELSE IF prev.state = next.state THEN "Equal"
    ELSE "Greater"

(* An Option<T> is the set of its values: {} is None, {x} is Some(x).      *)
unwrap_or_default(opt) == IF opt = {} THEN 0 ELSE CHOOSE x \in opt : TRUE

unwrap_node(opt) == CHOOSE x \in opt : TRUE

(* --------------------------- SearchTreeNode ---------------------------- *)
new_root == [kind |-> "Root", child_count |-> 0]

new_child(edge_traversal, parent) ==
    [kind |-> "Branch", incoming_edge |-> edge_traversal,
     parent |-> parent, child_count |-> 0]

parent_label(node) == IF node.kind = "Root" THEN {} ELSE {node.parent}

incoming_edge(node) ==
    IF node.kind = "Root" THEN {} ELSE {node.incoming_edge}

is_root(node) == node.kind = "Root"

traversal_cost(node) ==
    IF node.kind = "Root" THEN {} ELSE {node.incoming_edge.cost}

child_count(node) == node.child_count

\* mutant: the increment is lost
increment_child_count_lost(node) == node

increment_child_count(node) ==
    [node EXCEPT !.child_count = @ + 1]

decrement_child_count(node) ==
    IF node.child_count > 0
    THEN [node EXCEPT !.child_count = @ - 1]
    ELSE node

\* mutant: every node counts as prunable
is_prunable_always(node) == TRUE

\* mutant: a node with one child counts as prunable
is_prunable_one_child(node) == child_count(node) <= 1

is_prunable(node) == child_count(node) = 0

(* ------------------------------ SearchTree ----------------------------- *)
\* A tree value is [nodes |-> label -> node, labels |-> vertex -> labels].
EmptyTree == [nodes |-> << >>, labels |-> [v \in VertexIds |-> {}]]

get(t, label) == IF label \in DOMAIN t.nodes THEN {t.nodes[label]} ELSE {}

get_labels_iter(t, vertex_id) == t.labels[vertex_id]

len(t) == Cardinality(DOMAIN t.nodes)

is_empty(t) == DOMAIN t.nodes = {}

has_root(t) == \E l \in DOMAIN t.nodes : is_root(t.nodes[l])

\* the node stored under label, when there is one, gains or loses a child
add_child(nodes, label) ==
    IF label \in DOMAIN nodes
    THEN [nodes EXCEPT ![label] = increment_child_count(@)]
    ELSE nodes

drop_child(nodes, label) ==
    IF label \in DOMAIN nodes
    THEN [nodes EXCEPT ![label] = decrement_child_count(@)]
    ELSE nodes

\* the node map without label, its parent (if any) having lost one child
detach(nodes, label) ==
    LET node == nodes[label]
        rest == [l \in (DOMAIN nodes) \ {label} |-> nodes[l]]
    IN  IF is_root(node) THEN rest
        ELSE drop_child(rest, node.parent)

\* mutant: the vertex index keeps the removed label
remove_keeps_index(t, label) ==
    IF label \notin DOMAIN t.nodes THEN t
    ELSE IF ~is_prunable(t.nodes[label]) THEN t
    ELSE [nodes |-> detach(t.nodes, label), labels |-> t.labels]

\* remove(label): only a present, prunable node is removed
remove(t, label) ==
    IF label \notin DOMAIN t.nodes THEN t
    ELSE IF ~is_prunable(t.nodes[label]) THEN t
    ELSE [nodes |-> detach(t.nodes, label),
          labels |-> [t.labels EXCEPT ![label.vertex_id] = @ \ {label}]]

\* the node map in which label holds node; a node already stored under label
\* is replaced: its former parent loses one child and the children that
\* still point to label stay counted
put(nodes, label, node) ==
    LET old == get([nodes |-> nodes], label)
        released == IF old = {} \/ parent_label(unwrap_node(old)) = {}
                    THEN nodes
                    ELSE drop_child(nodes, unwrap_node(old).parent)
        kept == IF old = {} THEN 0 ELSE child_count(released[label])
    IN  (label :> [node EXCEPT !.child_count = kept]) @@ released

register(labels, label) ==
    [labels EXCEPT ![label.vertex_id] = @ \cup {label}]

\* set_root(label): establishes the Root; fails if a Root exists
set_root(t, label) ==
    IF has_root(t)
    THEN [tree |-> t, err |-> "RootExists"]
    ELSE [tree |-> [nodes |-> (label :> new_root) @@ t.nodes,
                    labels |-> register(t.labels, label)],
          err |-> "Ok"]

(* ------------------------------ pruning -------------------------------- *)
\* mutant: equal label states dominate at equal cost
test_dominates_equal_cost(prev_label, prev_cost, next_label, next_cost) ==
    LET label_comparison == compare(prev_label, next_label)
    IN  CASE label_comparison = "Less" -> next_cost <= prev_cost
          [] label_comparison = "Equal" -> next_cost <= prev_cost
          [] label_comparison = "Greater" -> FALSE

\* mutant: a cheaper next dominates whatever the label states
test_dominates_ignores_state(prev_label, prev_cost, next_label, next_cost) ==
    LET label_comparison == compare(prev_label, next_label)
    IN  CASE label_comparison = "Less" -> next_cost <= prev_cost
          [] label_comparison = "Equal" -> next_cost < prev_cost
          [] label_comparison = "Greater" -> next_cost < prev_cost

test_dominates(prev_label, prev_cost, next_label, next_cost) ==
    LET label_comparison == compare(prev_label, next_label)
    IN  CASE label_comparison = "Less" -> next_cost <= prev_cost
          [] label_comparison = "Equal" -> next_cost < prev_cost
          [] label_comparison = "Greater" -> FALSE

\* number of nodes of the map whose parent is label
children_of(nodes, label) ==
    Cardinality({l \in DOMAIN nodes : parent_label(nodes[l]) = {label}})

\* the loop of prune_tree over prev_entries[i..]; log records, for each
\* entry, what the loop saw and did
RECURSIVE prune_loop(_, _, _, _, _, _)
prune_loop(t, prev_entries, i, next_label, next_cost, log) ==
    IF i > Len(prev_entries) THEN [tree |-> t, err |-> "Ok", log |-> log]
    ELSE
        LET prev_label == prev_entries[i][1]
            prev_cost == prev_entries[i][2]
            dominated == test_dominates(prev_label, prev_cost,
                                        next_label, next_cost)
            node_opt == get(t, prev_label)
            prunable == IF node_opt = {} THEN FALSE
                        ELSE is_prunable(unwrap_node(node_opt))
            t2 == IF dominated /\ prunable THEN remove(t, prev_label) ELSE t
            entry == [prev_label |-> prev_label, prev_cost |-> prev_cost,
                      dominated |-> dominated,
                      kids |-> children_of(t.nodes, prev_label),
                      removed |-> prev_label \in DOMAIN t.nodes
                                  /\ prev_label \notin DOMAIN t2.nodes]
        IN  prune_loop(t2, prev_entries, i + 1, next_label, next_cost,
                       Append(log, entry))

\* the body of prune_tree after its early return: collects the labels at
\* next_label's vertex with their costs, then runs the loop
prune_entries(t, next_label, traversal, order) ==
    LET next_cost == traversal.cost
        missing == {i \in DOMAIN order : get(t, order[i]) = {}}
        prev_entries ==
            [i \in DOMAIN order |->
                <<order[i],
                  unwrap_or_default(traversal_cost(t.nodes[order[i]]))>>]
    IN  IF missing # {}
        THEN [tree |-> t, err |-> "MissingNodeForLabel", log |-> << >>]
        ELSE prune_loop(t, prev_entries, 1, next_label, next_cost, << >>)

\* mutant: no early return for labels that do not require pruning
prune_tree_without_early_return(t, next_label, traversal, order) ==
    prune_entries(t, next_label, traversal, order)

\* prune_tree(tree, next_label, traversal, label_model); order is the order
\* in which get_labels_iter yields the labels at next_label's vertex
prune_tree(t, next_label, traversal, order) ==
    IF does_not_require_pruning(next_label)
    THEN [tree |-> t, err |-> "Ok", log |-> << >>]
    ELSE prune_entries(t, next_label, traversal, order)

\* mutant: the parent is not looked up before the Branch is created
insert_unchecked_parent(t, parent, edge_traversal, child_label, order) ==
    LET pruned == prune_tree(t, child_label, edge_traversal, order)
        t1 == pruned.tree
        placed == put(t1.nodes, child_label, new_child(edge_traversal, parent))
    IN  IF pruned.err # "Ok" THEN pruned
        ELSE [tree |-> [nodes |-> add_child(placed, parent),
                        labels |-> register(t1.labels, child_label)],
              err |-> "Ok", log |-> pruned.log]

\* insert(parent_label, edge_traversal, child_label, label_model): prunes,
\* then creates the Branch, counts it on its parent and registers it
insert(t, parent, edge_traversal, child_label, order) ==
    LET pruned == prune_tree(t, child_label, edge_traversal, order)
        t1 == pruned.tree
    IN  IF pruned.err # "Ok" THEN pruned
        ELSE IF get(t1, parent) = {}
        THEN [tree |-> t1, err |-> "MissingParent", log |-> pruned.log]
        ELSE
            LET placed == put(t1.nodes, child_label,
                              new_child(edge_traversal, parent))
            IN  [tree |-> [nodes |-> add_child(placed, parent),
                           labels |-> register(t1.labels, child_label)],
                 err |-> "Ok", log |-> pruned.log]

\* the EdgeTraversal of the edge from parent's vertex to child's vertex: the
\* graph has one edge per ordered pair of vertices, the state vector holds
\* the cost
EdgeTraversal(parent, child, cost) ==
    [edge_list_id |-> 0,
     edge_id |-> parent.vertex_id * NumVertices + child.vertex_id,
     cost |-> cost, result_state |-> <<cost>>]

\* the orders in which a set can be iterated
Orders(S) ==
    {f \in [1 .. Cardinality(S) -> S] : \A x \in S : \E i \in DOMAIN f : f[i] = x}

(* ------------------------- frontier and pop_new ------------------------ *)
MaxQueue == 3

\* InternalPriorityQueue<Label, ReverseCost>: one cost per label; pop takes
\* an entry of the lowest cost, any one of them on a tie
push(queue, label, cost) ==
    [l \in DOMAIN queue \cup {label} |-> IF l = label THEN cost ELSE queue[l]]

pop_candidates(queue) ==
    {l \in DOMAIN queue : \A m \in DOMAIN queue : queue[l] <= queue[m]}

pop_rest(queue, label) == [l \in DOMAIN queue \ {label} |-> queue[l]]

\* the state vector at the origin of the search
initial_state == <<MaxCost + 1>>

\* the outcome of one pop: Err(NoPathExistsBetweenVertices(source, target,
\* tree_len)), Ok(None) or Ok(Some(FrontierInstance)), with the queue left
PopOutcome(res, why, lab, edge, st, queue, skipped, source, target, n) ==
    [result |-> res, why |-> why, prev_label |-> lab,
     prev_edge |-> edge, prev_state |-> st, frontier |-> queue,
     skipped |-> skipped, source |-> source, target |-> target,
     tree_len |-> n]

\* mutant: an empty queue is never an error
pop_empty_never_fails(queue, source, target, solution, skipped) ==
    PopOutcome("None", "exhausted", NoLabel, {}, << >>, queue, skipped,
               -1, target, 0)

\* the arms (None, Some(target)) and (None, None): what pop_new returns when
\* the queue is empty
pop_empty(queue, source, target, solution, skipped) ==
    IF target # {}
    THEN PopOutcome("Err", "no_path", NoLabel, {}, << >>, queue, skipped,
                    source, target, len(solution))
    ELSE PopOutcome("None", "exhausted", NoLabel, {}, << >>, queue, skipped,
                    -1, target, 0)

\* mutant: the target is only recognised on a label that is in the tree
is_target_in_tree(prev_label, target, solution) ==
    {prev_label.vertex_id} = target /\ get(solution, prev_label) # {}

\* the guard prev_label.vertex_id() == &target_v of the third arm
is_target(prev_label, target, solution) == {prev_label.vertex_id} = target

\* mutant: a label without a node is skipped whatever the tree holds
is_pruned_or_unknown(node_opt, solution) == node_opt = {}

\* node_opt.is_none() && !solution.is_empty(): the label was pruned from the
\* tree while it was in the frontier
is_pruned(node_opt, solution) == node_opt = {} /\ ~is_empty(solution)

\* the FrontierInstance of a popped label: its incoming edge if it has one,
\* and the state that edge led to or the initial state of the search
new_instance(prev_label, node_opt, init_state, rest, skipped, target) ==
    LET et_opt == UNION {incoming_edge(n) : n \in node_opt}
    IN  PopOutcome("Some", "instance", prev_label,
                   {<<et.edge_list_id, et.edge_id>> : et \in et_opt},
                   IF et_opt = {} THEN init_state
                   ELSE unwrap_node(et_opt).result_state,
                   rest, skipped, -1, target, 0)

\* mutant: the skip clause is missing, every popped label is returned
pop_new_without_skip(queue, source, target, solution, init_state, skipped) ==
    IF DOMAIN queue = {}
    THEN {pop_empty(queue, source, target, solution, skipped)}
    ELSE
        {IF is_target(prev_label, target, solution)
         THEN PopOutcome("None", "reached", NoLabel, {}, << >>,
                         pop_rest(queue, prev_label), skipped, -1, target, 0)
         ELSE new_instance(prev_label, get(solution, prev_label), init_state,
                           pop_rest(queue, prev_label), skipped, target)
         : prev_label \in pop_candidates(queue)}

\* FrontierInstance::pop_new(frontier, source, target, solution,
\* initial_state): the set of outcomes it can return (one per way of breaking
\* the ties of the queue); skipped collects the labels the loop discarded
RECURSIVE pop_new(_, _, _, _, _, _)
pop_new(queue, source, target, solution, init_state, skipped) ==
    IF DOMAIN queue = {}
    THEN {pop_empty(queue, source, target, solution, skipped)}
    ELSE UNION {
        LET rest == pop_rest(queue, prev_label)
            node_opt == get(solution, prev_label)
        IN  IF is_target(prev_label, target, solution)
            THEN {PopOutcome("None", "reached", NoLabel, {}, << >>, rest,
                             skipped, -1, target, 0)}
            ELSE IF is_pruned(node_opt, solution)
            THEN pop_new(rest, source, target, solution, init_state,
                         skipped \cup {prev_label})
            ELSE {new_instance(prev_label, node_opt, init_state, rest,
                               skipped, target)}
        : prev_label \in pop_candidates(queue)}

(* ------------------------------- state --------------------------------- *)
VARIABLES
    label_model,  \* "vertex" or "soc": the label model of the query
    tree,         \* the SearchTree of the query
    last,         \* the last operation: its arguments, outcome and pruning log
    dom,          \* (label, cost) pairs at one vertex and the dominance answers
    frontier,     \* the priority queue of the query: label -> cost
    pop,          \* the last pop_new: its arguments and what it returned
    cut,          \* a list of cutting points and what compress made of it
    joined,       \* a list of segments and what join_segments made of it
    sched,        \* apply_load_balancing_policy: its arguments and locals
    mt,           \* match_trace: its argument, locals and result
    run,          \* a batch run: the workers, the progress bar and the sink
    summary,      \* a state variable of a route and its summary operation
    refine,       \* the refinement loop of match_trace, its body as an input
    tseg          \* a segment given to compute_cutting_points, and the result

vars == <<label_model, tree, last, dom, frontier, pop, cut, joined, sched, mt,
          run, summary, refine, tseg>>

lcssVars == <<cut, joined, mt, refine, tseg>>

appVars == <<sched, run, summary>>

treeVars == <<label_model, tree, last>>

NoOp == [op |-> "none", parent |-> NoLabel, label |-> NoLabel, cost |-> 0,
         err |-> "Ok", log |-> << >>]

DomPoints == 1 .. 3

DomPairs == DomPoints \X DomPoints

NoDom == [vertex_id |-> 0, points |-> [i \in DomPoints |-> [state |-> 0, cost |-> 0]],
          asked |-> FALSE, answer |-> [ij \in DomPairs |-> FALSE]]

EmptyFrontier == << >>

NoPop == [result |-> "idle", why |-> "idle", prev_label |-> NoLabel,
          prev_edge |-> {}, prev_state |-> << >>, skipped |-> {},
          source |-> -1, target |-> {}, err_source |-> -1,
          tree_len |-> 0, before |-> EmptyFrontier]

NoCut == [input |-> << >>, done |-> FALSE, output |-> << >>]

NoSegment == [trace |-> << >>, path |-> << >>, matches |-> << >>,
              score |-> <<0, 1>>, cutting_points |-> << >>]

NoJoin == [segments |-> << >>, done |-> FALSE, err |-> "Ok", seg |-> NoSegment]

NoMatch == [pc |-> "idle", trace |-> << >>, stationary_indices |-> << >>,
            sub_trace |-> << >>, scheme |-> << >>, next_scheme |-> << >>,
            i |-> 1, changed |-> FALSE, round |-> 0, splits |-> 0,
            segment_score |-> {}, joined_score |-> {},
            point_matches |-> << >>, path |-> << >>, err |-> "Ok"]

NoRefine == [pc |-> "idle", round |-> 0, segments |-> 0, err |-> "Ok"]

NoTseg == [seg |-> NoSegment, done |-> FALSE, below_zero |-> FALSE]

\* no map matching is going on
LcssIdle ==
    /\ cut = NoCut
    /\ joined = NoJoin
    /\ mt = NoMatch
    /\ refine = NoRefine
    /\ tseg = NoTseg
    /\ tseg = NoTseg

NoSched == [queries |-> << >>, parallelism |-> 0, pc |-> "idle", next |-> 1,
            bin_totals |-> << >>, assignments |-> << >>]

NoRun == [op |-> "idle", batches |-> << >>, pc |-> << >>, next |-> << >>,
          response |-> << >>, responses |-> << >>, n |-> << >>,
          err |-> << >>,
          pb |-> [n |-> 0, holder |-> 0], sink |-> << >>, result |-> "running"]

NoSummary == [caller |-> "idle", name |-> "", is_accumulator |-> FALSE,
              plugin_op |-> {}, request_op |-> {}, route_is_empty |-> FALSE,
              done |-> FALSE, op |-> {}]

\* no batch is being scheduled or run and no route is being summarised
AppIdle == sched = NoSched /\ run = NoRun /\ summary = NoSummary

Init ==
    /\ label_model \in {"vertex", "soc"}
    /\ tree = EmptyTree
    /\ last = NoOp
    /\ dom = NoDom
    /\ frontier = EmptyFrontier
    /\ pop = NoPop
    /\ LcssIdle
    /\ AppIdle

\* An operation is either traced (last records it and the run ends there, to
\* be examined) or not (last stays empty and the query goes on).
Untraced == last.op = "none"

Trace(traced, record) == IF traced THEN record ELSE NoOp

\* set_root is called with the label of the search origin: while the tree
\* has no Root, a label that is not yet a key
SetRoot ==
    /\ Untraced
    /\ \E label \in LabelsOf(label_model), traced \in BOOLEAN :
        LET r == set_root(tree, label)
        IN  /\ has_root(tree) \/ get(tree, label) = {}
            /\ tree' = r.tree
            /\ last' = Trace(traced, [NoOp EXCEPT !.op = "set_root",
                                        !.label = label, !.err = r.err])
            /\ UNCHANGED <<label_model, dom, frontier, pop, lcssVars, appVars>>

\* insert is called with any parent and any child label other than the
\* label of the Root (no traversal leads to the origin of the search)
Insert ==
    /\ Untraced
    /\ \E parent \in LabelsOf(label_model), child \in LabelsOf(label_model),
          cost \in Costs, traced \in BOOLEAN :
        /\ len(tree) < MaxNodes \/ get(tree, child) # {}
        /\ \A node \in get(tree, child) : ~is_root(node)
        /\ \E order \in Orders(get_labels_iter(tree, child.vertex_id)) :
            LET r == insert(tree, parent, EdgeTraversal(parent, child, cost),
                              child, order)
            IN  /\ tree' = r.tree
                /\ last' = Trace(traced, [op |-> "insert", parent |-> parent,
                                          label |-> child, cost |-> cost,
                                          err |-> r.err, log |-> r.log])
                /\ UNCHANGED <<label_model, dom, frontier, pop, lcssVars, appVars>>

Remove ==
    /\ Untraced
    /\ \E label \in LabelsOf(label_model), traced \in BOOLEAN :
        /\ tree' = remove(tree, label)
        /\ last' = Trace(traced, [NoOp EXCEPT !.op = "remove",
                                    !.label = label])
        /\ UNCHANGED <<label_model, dom, frontier, pop, lcssVars, appVars>>

\* prune_tree called on its own, for a label and the cost of a traversal
PruneTree ==
    /\ Untraced
    /\ \E label \in LabelsOf(label_model), cost \in Costs, traced \in BOOLEAN :
        \E order \in Orders(get_labels_iter(tree, label.vertex_id)) :
            LET r == prune_tree(tree, label,
                                EdgeTraversal(label, label, cost), order)
            IN  /\ tree' = r.tree
                /\ last' = Trace(traced, [NoOp EXCEPT !.op = "prune_tree",
                                            !.label = label, !.cost = cost,
                                            !.err = r.err, !.log = r.log])
                /\ UNCHANGED <<label_model, dom, frontier, pop, lcssVars, appVars>>

Next == SetRoot \/ Insert \/ Remove \/ PruneTree

Spec == Init /\ [][Next]_vars

(* ------------------- the dominance test on its own --------------------- *)
\* Three (label, cost) pairs at one vertex; TestDominates asks test_dominates
\* about every ordered pair (prev, next) of them.
DomLabel(d, i) == [vertex_id |-> d.vertex_id, state |-> d.points[i].state]

InitDominates ==
    /\ label_model = "soc"
    /\ tree = EmptyTree
    /\ last = NoOp
    /\ frontier = EmptyFrontier
    /\ pop = NoPop
    /\ LcssIdle
    /\ AppIdle
    /\ \E v \in VertexIds, pts \in [DomPoints -> [state : States, cost : Costs]] :
          dom = [NoDom EXCEPT !.vertex_id = v, !.points = pts]

TestDominates ==
    /\ ~dom.asked
    /\ dom' = [dom EXCEPT
                !.asked = TRUE,
                !.answer = [ij \in DomPairs |->
                              test_dominates(DomLabel(dom, ij[1]),
                                             dom.points[ij[1]].cost,
                                             DomLabel(dom, ij[2]),
                                             dom.points[ij[2]].cost)]]
    /\ UNCHANGED <<treeVars, frontier, pop, lcssVars, appVars>>

NextDominates == TestDominates

SpecDominates == InitDominates /\ [][NextDominates]_vars

(* ------------------------- pop_new on its own -------------------------- *)
\* the trees a query can hold when it pops: the empty tree, a Root, and what
\* up to two inserts (pruning included) make of it
Grown(trees, lm) ==
    UNION {UNION {UNION {UNION {
        {insert(t, parent, EdgeTraversal(parent, child, cost), child, order).tree
            : order \in Orders(get_labels_iter(t, child.vertex_id))}
        : cost \in Costs}
        : child \in {c \in LabelsOf(lm) : \A n \in get(t, c) : ~is_root(n)}}
        : parent \in DOMAIN t.nodes}
        : t \in trees}

PopTrees(lm) ==
    LET rooted == {set_root(EmptyTree, r).tree : r \in LabelsOf(lm)}
        once == Grown(rooted, lm)
    IN  {EmptyTree} \cup rooted \cup once \cup Grown(once, lm)

InitPop ==
    /\ label_model \in {"vertex", "soc"}
    /\ tree \in PopTrees(label_model)
    /\ last = NoOp
    /\ dom = NoDom
    /\ frontier = EmptyFrontier
    /\ pop = NoPop
    /\ LcssIdle
    /\ AppIdle

\* the driver pushes a label with its priority
Push ==
    /\ \E label \in LabelsOf(label_model), cost \in Costs :
          /\ label \in DOMAIN frontier \/ Cardinality(DOMAIN frontier) < MaxQueue
          /\ frontier' = push(frontier, label, cost)
    /\ pop' = NoPop
    /\ UNCHANGED <<treeVars, dom, lcssVars, appVars>>

\* the driver pops the next label to expand
PopNew ==
    /\ \E source \in VertexIds, target \in {{}} \cup {{v} : v \in VertexIds} :
          \E out \in pop_new(frontier, source, target, tree, initial_state, {}) :
              /\ frontier' = out.frontier
              /\ pop' = [result |-> out.result, why |-> out.why,
                         prev_label |-> out.prev_label,
                         prev_edge |-> out.prev_edge,
                         prev_state |-> out.prev_state,
                         skipped |-> out.skipped, source |-> source,
                         target |-> target, err_source |-> out.source,
                         tree_len |-> out.tree_len, before |-> frontier]
    /\ UNCHANGED <<treeVars, dom, lcssVars, appVars>>

NextPop == Push \/ PopNew

SpecPop == InitPop /\ [][NextPop]_vars

(* ======================= properties of the tree ======================== *)
Keys == DOMAIN tree.nodes

TracedInsert == last.op = "insert"

PrunedSome == \E i \in DOMAIN last.log : last.log[i].removed

\* C1: every node's child_count equals the number of nodes of the tree whose
\* parent_label is that node's label, after any sequence of set_root, insert
\* (pruning included) and remove.
C1_ChildCountExact ==
    \A l \in Keys : child_count(tree.nodes[l]) = children_of(tree.nodes, l)

\* an insert whose pruning step removed a label, in a tree that has a parent
C1_Witness ==
    /\ TracedInsert /\ last.err = "Ok" /\ PrunedSome
    /\ \E l \in Keys : child_count(tree.nodes[l]) >= 1

\* C2: every Branch node's parent label is a key of the tree; no removal
\* (by remove or by pruning) orphans a live branch.
C2_NoOrphan ==
    \A l \in Keys : parent_label(tree.nodes[l]) \subseteq Keys

\* pruning met a dominated label that has a child and kept it as an anchor
C2_Witness ==
    /\ TracedInsert /\ last.err = "Ok"
    /\ \E i \in DOMAIN last.log :
          /\ last.log[i].dominated /\ ~last.log[i].removed
          /\ last.log[i].prev_label \in Keys
          /\ \E l \in Keys : parent_label(tree.nodes[l]) = {last.log[i].prev_label}

\* the dominance rule of section 4.3, on label states and costs
Dominates(prev_state, prev_cost, next_state, next_cost) ==
    \/ prev_state < next_state /\ next_cost <= prev_cost
    \/ prev_state = next_state /\ next_cost < prev_cost

\* C3 (as stated): the pruning step of insert removes prev iff next dominates
\* prev and prev has no children in the tree insert was called on.
C3_RemovedIffDominatedChildless ==
    [][TracedInsert' =>
        \A i \in DOMAIN last'.log :
            LET e == last'.log[i]
            IN  e.removed <=>
                    /\ Dominates(e.prev_label.state, e.prev_cost,
                                 last'.label.state, last'.cost)
                    /\ children_of(tree.nodes, e.prev_label) = 0]_vars

\* C3 (amended): the pruning step removes prev iff next dominates prev and
\* prev has no children at the moment the pruning loop examines it; a label
\* that is not dominated is always retained.
C3_RemovedIffDominatedChildlessWhenExamined ==
    TracedInsert =>
        \A i \in DOMAIN last.log :
            LET e == last.log[i]
            IN  e.removed <=>
                    /\ Dominates(e.prev_label.state, e.prev_cost,
                                 last.label.state, last.cost)
                    /\ e.kids = 0

\* one pruning step that removed a label, kept a dominated label that has a
\* child and kept a label that is not dominated
C3_Witness ==
    /\ TracedInsert
    /\ PrunedSome
    /\ \E i \in DOMAIN last.log :
          last.log[i].dominated /\ last.log[i].kids > 0 /\ ~last.log[i].removed

\* C7: remove(label) changes the tree iff the label is present and its node
\* has child_count = 0; otherwise node map, child counts and vertex index
\* are all unchanged; a removal takes the node out of the map.
C7_RemoveIffPrunable ==
    [][last'.op = "remove" =>
        LET label == last'.label
            prunable == label \in Keys /\ tree.nodes[label].child_count = 0
        IN  /\ (tree' # tree) <=> prunable
            /\ prunable => label \notin DOMAIN tree'.nodes]_vars

\* a remove of a label that has a child: the node is still there
C7_Witness ==
    /\ last.op = "remove"
    /\ last.label \in Keys
    /\ child_count(tree.nodes[last.label]) > 0

\* C8: the vertex index lists exactly the keys of the node map, each under
\* its own vertex, so pruning never meets a listed label without a node.
C8_IndexCoversKeys ==
    /\ \A v \in VertexIds : tree.labels[v] = {l \in Keys : l.vertex_id = v}
    /\ last.err # "MissingNodeForLabel"

\* a pruning step removed a label and two labels are listed at one vertex
C8_Witness ==
    /\ TracedInsert /\ PrunedSome
    /\ \E v \in VertexIds : Cardinality(tree.labels[v]) >= 2

RootCount(t) == Cardinality({l \in DOMAIN t.nodes : is_root(t.nodes[l])})

\* C9: once the tree holds its Root it holds exactly one Root after every
\* further set_root, insert and remove.
C9_ExactlyOneRoot ==
    [][RootCount(tree) = 1 => RootCount(tree') = 1]_vars

C29_PruningKeepsParent ==
    TracedInsert =>
        \A i \in DOMAIN last.log :
            last.log[i].removed => last.log[i].prev_label # last.parent

\* the same for a parent that is a Branch, with a traversal that costs
\* something
PruningKeepsBranchParent ==
    (TracedInsert /\ last.cost > 0) =>
        \A i \in DOMAIN last.log :
            last.log[i].removed => last.log[i].prev_label # last.parent

(* ==================== properties of the dominance test ================= *)
\* C4: for labels prev and next at one vertex and any two costs, the test
\* answers true exactly when compare(prev, next) is Less and next_cost <=
\* prev_cost, or compare(prev, next) is Equal and next_cost < prev_cost; it
\* answers false whenever compare(prev, next) is Greater.
C4_DominanceTable ==
    dom.asked =>
        \A ij \in DomPairs :
            LET prev == dom.points[ij[1]]
                next == dom.points[ij[2]]
                cmp == compare(DomLabel(dom, ij[1]), DomLabel(dom, ij[2]))
            IN  /\ dom.answer[ij] <=>
                      \/ cmp = "Less" /\ next.cost <= prev.cost
                      \/ cmp = "Equal" /\ next.cost < prev.cost
                /\ cmp = "Greater" => ~dom.answer[ij]

\* the three pairs show a Less that dominates (1, 2), a Less that does not
\* (1, 3), a Greater with a cheaper next (3, 1) and an Equal at equal cost
C4_Witness ==
    /\ dom.asked
    /\ dom.points[1].state < dom.points[2].state
    /\ dom.answer[<<1, 2>>]
    /\ dom.points[2].state = dom.points[3].state
    /\ dom.points[3].cost > dom.points[1].cost
    /\ ~dom.answer[<<1, 3>>]
    /\ ~dom.answer[<<3, 1>>]
    /\ ~dom.answer[<<2, 2>>]

(* ========================= properties of pop_new ======================= *)
InTree(label) == label \in Keys

AtTarget(label) == {label.vertex_id} = pop.target

\* C5: with a non-empty tree pop_new never returns an entry whose label is not
\* in the tree.  It discards exactly the entries that are not in the tree and
\* come before the returned one, and the returned entry has the lowest cost of
\* all entries that are in the tree or at the target; when it returns no
\* entry, no entry of the queue was in the tree, or an entry at the target or
\* the end of the queue came first.
C5_SkipPruned ==
    (pop.result # "idle" /\ ~is_empty(tree)) =>
        /\ \A l \in pop.skipped :
              l \in DOMAIN pop.before /\ ~InTree(l) /\ ~AtTarget(l)
        /\ pop.result = "Some" =>
              /\ InTree(pop.prev_label)
              /\ pop.prev_label \in DOMAIN pop.before
              /\ \A l \in DOMAIN pop.before :
                    (InTree(l) \/ AtTarget(l)) =>
                        pop.before[pop.prev_label] <= pop.before[l]
              /\ \A l \in pop.skipped :
                    pop.before[l] <= pop.before[pop.prev_label]
              /\ DOMAIN frontier
                    = DOMAIN pop.before \ (pop.skipped \cup {pop.prev_label})
        /\ pop.why \in {"exhausted", "no_path"} =>
              /\ pop.skipped = DOMAIN pop.before
              /\ frontier = EmptyFrontier
        /\ pop.why = "reached" =>
              \E l \in DOMAIN pop.before :
                  /\ AtTarget(l)
                  /\ \A m \in DOMAIN pop.before :
                        InTree(m) => pop.before[l] <= pop.before[m]

\* pop_new discarded an entry that is not in the tree and returned the
\* cheaper of two entries that are
C5_Witness ==
    /\ pop.result = "Some"
    /\ ~is_empty(tree)
    /\ pop.skipped # {}
    /\ \E l \in DOMAIN frontier :
          InTree(l) /\ pop.before[l] > pop.before[pop.prev_label]

\* an entry pop_new passes over: the tree is not empty, the label has no node
\* and is not at the target
Skippable(label) == ~is_empty(tree) /\ ~InTree(label) /\ ~AtTarget(label)

\* the entry pop_new took out of the queue and did not pass over
Taken == DOMAIN pop.before \ (DOMAIN frontier \cup pop.skipped)

\* C11: when pop_new finds the queue empty, at the first pop or after passing
\* over every entry, it fails with NoPathExistsBetweenVertices(source, target,
\* tree.len()) if a target is set and returns Ok(None) if no target is set;
\* it fails in no other case.
C11_EmptyQueue ==
    pop.result # "idle" =>
        LET ran_empty == \A l \in DOMAIN pop.before : Skippable(l)
        IN  /\ ran_empty =>
                /\ frontier = EmptyFrontier
                /\ pop.skipped = DOMAIN pop.before
                /\ pop.target # {} =>
                      /\ pop.result = "Err" /\ pop.why = "no_path"
                      /\ pop.err_source = pop.source
                      /\ pop.tree_len = len(tree)
                /\ pop.target = {} =>
                      pop.result = "None" /\ pop.why = "exhausted"
            /\ pop.result = "Err" => ran_empty /\ pop.target # {}
            /\ pop.why = "exhausted" => ran_empty /\ pop.target = {}

\* the queue ran empty after pop_new passed over an entry, with a target set
\* and nodes in the tree
C11_Witness ==
    /\ pop.result = "Err"
    /\ pop.skipped # {}
    /\ pop.tree_len >= 2

\* C12: when the label pop_new pops is at the target vertex it returns
\* Ok(None) at once, whether or not the label has a node: no FrontierInstance
\* is built for it, and a FrontierInstance is never for a label at the target.
C12_TargetReached ==
    pop.result # "idle" =>
        LET live == {l \in DOMAIN pop.before : ~Skippable(l)}
            first == {l \in live : \A m \in live : pop.before[l] <= pop.before[m]}
        IN  /\ pop.result = "Some" => ~AtTarget(pop.prev_label)
            /\ (first # {} /\ \A l \in first : AtTarget(l)) =>
                   pop.why = "reached"
            /\ pop.why = "reached" =>
                  /\ pop.result = "None"
                  /\ pop.prev_label = NoLabel
                  /\ pop.prev_edge = {}
                  /\ pop.prev_state = << >>
                  /\ \E l \in first : AtTarget(l) /\ Taken = {l}

\* the label at the target was popped after an entry was passed over, it has
\* no node in the tree, and an entry with a node is left in the queue
C12_Witness ==
    /\ pop.why = "reached"
    /\ ~is_empty(tree)
    /\ pop.skipped # {}
    /\ Taken \cap Keys = {}
    /\ DOMAIN frontier \cap Keys # {}

\* the source label is the one entry pop_new pops first, and the tree is empty
\* or holds only the Root, under that label
SourcePopped(label) ==
    /\ pop_candidates(pop.before) = {label}
    /\ label.vertex_id = pop.source
    /\ \/ is_empty(tree)
       \/ Keys = {label} /\ is_root(tree.nodes[label])

RootInstance(label) ==
    /\ pop.result = "Some"
    /\ pop.prev_label = label
    /\ pop.prev_edge = {}
    /\ pop.prev_state = initial_state
    /\ pop.skipped = {}

\* C13 (as stated): when the source label is popped while the tree is empty
\* or holds only the Root, pop_new returns a FrontierInstance for it with no
\* prev_edge and prev_state = initial_state.
C13_RootReturned ==
    \A label \in Labels :
        (pop.result # "idle" /\ SourcePopped(label)) => RootInstance(label)

\* C13 (amended): the same, for a search whose target is not the source
\* vertex; the skip clause never passes over the source label.
C13_RootReturnedUnlessTarget ==
    \A label \in Labels :
        (pop.result # "idle" /\ SourcePopped(label)) =>
            /\ label \notin pop.skipped
            /\ ~AtTarget(label) => RootInstance(label)

\* the Root's label was popped from a tree that holds only the Root, in a
\* search that has a target
C13_Witness ==
    /\ pop.target # {}
    /\ \E label \in Keys : SourcePopped(label) /\ RootInstance(label)

(* ============== the dominance relation as an order (C14) =============== *)
\* point a dominates point b: test_dominates with b as prev and a as next
DominatesPoint(a, b) == dom.answer[<<b, a>>]

\* C14: on (label, cost) pairs at one vertex, with label states compared as
\* integers, no pair dominates itself (or an equal pair), and if A dominates
\* B and B dominates C then A dominates C.
C14_DominanceStrictOrder ==
    dom.asked =>
        /\ \A a, b \in DomPoints :
              dom.points[a] = dom.points[b] => ~DominatesPoint(a, b)
        /\ \A a, b, c \in DomPoints :
              (DominatesPoint(a, b) /\ DominatesPoint(b, c))
                  => DominatesPoint(a, c)

\* a chain of three: 1 dominates 2 by its state at equal cost, 2 dominates 3
\* by its cost at equal state, and 1 dominates 3
C14_Witness ==
    /\ dom.asked
    /\ dom.points[1].state > dom.points[2].state
    /\ dom.points[1].cost = dom.points[2].cost
    /\ dom.points[2].state = dom.points[3].state
    /\ dom.points[2].cost < dom.points[3].cost
    /\ DominatesPoint(1, 2) /\ DominatesPoint(2, 3) /\ DominatesPoint(1, 3)

(* ===================== labels that skip pruning (C15) ================== *)
\* C15: for a next label whose does_not_require_pruning attribute is set,
\* prune_tree returns Ok without comparing or removing any label: the tree
\* is unchanged.
C15_NoPruningForPlainLabels ==
    [][(last'.op = "prune_tree" /\ does_not_require_pruning(last'.label)) =>
        /\ tree' = tree
        /\ last'.err = "Ok"
        /\ last'.log = << >>]_vars

\* prune_tree was called for a plain vertex label that is in the tree as a
\* childless Branch, with a cost below that of the stored traversal
C15_Witness ==
    /\ last.op = "prune_tree"
    /\ does_not_require_pruning(last.label)
    /\ last.label \in Keys
    /\ is_prunable(tree.nodes[last.label])
    /\ ~is_root(tree.nodes[last.label])
    /\ last.cost < unwrap_or_default(traversal_cost(tree.nodes[last.label]))

(* ======================================================================= *)
(*                       LCSS map matching: compress                       *)
(* ======================================================================= *)
MaxIndex == 4
MaxCut == 4

\* the searching part of the state when no search is going on
SearchIdle ==
    /\ label_model = "vertex"
    /\ tree = EmptyTree
    /\ last = NoOp
    /\ dom = NoDom
    /\ frontier = EmptyFrontier
    /\ pop = NoPop

searchVars == <<label_model, tree, last, dom, frontier, pop>>

\* Vec::sort on indices: insert x into an ascending sequence, after its equals
RECURSIVE sort_insert(_, _)
sort_insert(sorted, x) ==
    IF sorted = << >> THEN <<x>>
    ELSE IF x < Head(sorted) THEN <<x>> \o sorted
    ELSE <<Head(sorted)>> \o sort_insert(Tail(sorted), x)

RECURSIVE sort(_)
sort(points) ==
    IF points = << >> THEN << >>
    ELSE sort_insert(sort(SubSeq(points, 1, Len(points) - 1)),
                     points[Len(points)])

\* current_group[mid] with mid = current_group.len() / 2, indices from 0
group_mid(current_group) == current_group[(Len(current_group) \div 2) + 1]

\* the loop of compress over cutting_points[i..] and what follows the loop
RECURSIVE compress_loop(_, _, _, _)
compress_loop(cutting_points, i, current_group, result) ==
    IF i > Len(cutting_points)
    THEN IF current_group # << >>
         THEN Append(result, group_mid(current_group))
         ELSE result
    ELSE
        LET point == cutting_points[i]
        IN  IF point = current_group[Len(current_group)] + 1
            THEN compress_loop(cutting_points, i + 1,
                               Append(current_group, point), result)
            ELSE compress_loop(cutting_points, i + 1, <<point>>,
                               Append(result, group_mid(current_group)))

compress(cutting_points) ==
    IF cutting_points = << >> THEN << >>
    ELSE LET sorted == sort(cutting_points)
         IN  compress_loop(sorted, 2, <<sorted[1]>>, << >>)

\* every list of at most MaxCut indices in 0 .. MaxIndex
CutLists == UNION {[1 .. n -> 0 .. MaxIndex] : n \in 0 .. MaxCut}

InitCompress ==
    /\ SearchIdle
    /\ joined = NoJoin
    /\ mt = NoMatch
    /\ refine = NoRefine
    /\ tseg = NoTseg
    /\ AppIdle
    /\ \E input \in CutLists : cut = [NoCut EXCEPT !.input = input]

Compress ==
    /\ ~cut.done
    /\ cut' = [cut EXCEPT !.done = TRUE, !.output = compress(cut.input)]
    /\ UNCHANGED <<searchVars, joined, mt, refine, tseg, appVars>>

NextCompress == Compress

SpecCompress == InitCompress /\ [][NextCompress]_vars

(* ------------------------ properties of compress ----------------------- *)
Range(seq) == {seq[i] : i \in DOMAIN seq}

Ascending(seq) == \A i, j \in DOMAIN seq : i < j => seq[i] < seq[j]

\* the first elements of the maximal runs of consecutive integers in S
RunStarts(S) == {a \in S : a - 1 \notin S}

\* the last element of the run of S that begins at a
RunEnd(S, a) == CHOOSE b \in S : (a .. b) \subseteq S /\ b + 1 \notin S /\ b >= a

\* the middle of the run that begins at a, the upper middle if its length is
\* even
RunMiddle(S, a) == a + ((RunEnd(S, a) - a + 1) \div 2)

CompressLaw(input, output) ==
    LET S == Range(input)
    IN  /\ Ascending(output)
        /\ Len(output) = Cardinality(RunStarts(S))
        /\ Range(output) = {RunMiddle(S, a) : a \in RunStarts(S)}

\* C17: for every input list, compress returns in ascending order exactly
\* one representative per maximal run of consecutive integers of the input,
\* the middle of the run (the upper middle of an even-length run); values
\* without a consecutive neighbour pass through and the empty list gives the
\* empty list.
C17_CompressLaw == cut.done => CompressLaw(cut.input, cut.output)

\* the same law for the lists in which no index occurs twice
CompressLawWithoutRepeats ==
    (cut.done /\ Cardinality(Range(cut.input)) = Len(cut.input))
        => CompressLaw(cut.input, cut.output)

(* ======================================================================= *)
(*                  LCSS map matching: trajectory segments                 *)
(* ======================================================================= *)
\* The map is a road along a line: edge 1 lies at coordinate 0 and edge 2 at
\* coordinate MaxCoord; the distance from a point to an edge is the distance
\* along the line.  What the graph and the searches answer (paths, gap
\* fills, failures) is an input of every call.
MaxCoord == 4
Coords == 0 .. MaxCoord

EdgeIds == {1, 2}
Edges == {<<0, e>> : e \in EdgeIds}
EdgeAt(edge) == IF edge[2] = 1 THEN 0 ELSE MaxCoord

\* Length::new::<meter>(f64::INFINITY)
Infinity == 1000
is_infinite(d) == d = Infinity

\* LcssMapMatching: the parameters of the matcher, in units of the line
distance_epsilon == 2
cutting_threshold == 1
distance_threshold == 3
\* similarity_cutoff as a fraction
similarity_cutoff == <<9, 10>>

\* scores are fractions <<numerator, denominator>>, denominator > 0
ScoreZero == <<0, 1>>
\* the comparison of two scores with a mistake: equal scores pass
ScoreLessOrEqual(a, b) == a[1] * b[2] <= b[1] * a[2]

ScoreLess(a, b) == a[1] * b[2] < b[1] * a[2]

Abs(x) == IF x < 0 THEN -x ELSE x
Max(a, b) == IF a >= b THEN a ELSE b
Min(a, b) == IF a <= b THEN a ELSE b

\* a trace point: its place in the input trace and its coordinate
TracePoint(i, c) == [i |-> i, coord |-> c]

PointMatch(edge, distance) == [edge |-> edge, distance_to_edge |-> distance]

\* a coordinate outside the valid range of longitudes and latitudes
OffMap == 0 - 1

\* haversine::haversine_distance as a Result: the distance along the line,
\* or no value (Err) when a coordinate is not valid
haversine_distance(c1, c2) ==
    IF c1 = OffMap \/ c2 = OffMap THEN {} ELSE {Abs(c1 - c2)}

\* compute_distance_to_edge(point, edge_list_id, edge_id, si)
compute_distance_to_edge(point, edge) ==
    LET dist == haversine_distance(point.coord, EdgeAt(edge))
    IN  IF dist = {} THEN Infinity ELSE CHOOSE d \in dist : TRUE

\* TrajectorySegment::new(trace, path)
new_segment(trace, path) ==
    [trace |-> trace, path |-> path, matches |-> << >>, score |-> ScoreZero,
     cutting_points |-> << >>]

\* point_similarity, times distance_epsilon
point_similarity(dt) ==
    IF dt < distance_epsilon THEN distance_epsilon - dt ELSE 0

\* row i of the table c of score_and_match, columns 0 .. j, from row i - 1
RECURSIVE lcss_row(_, _, _, _)
lcss_row(prev_row, trace_point, path, j) ==
    IF j = 0 THEN <<0>>
    ELSE LET left == lcss_row(prev_row, trace_point, path, j - 1)
             dt == compute_distance_to_edge(trace_point, path[j])
         IN  Append(left, Max(prev_row[j] + point_similarity(dt),
                              Max(left[j], prev_row[j + 1])))

\* c[i][n] of score_and_match, times distance_epsilon
RECURSIVE lcss_table(_, _, _)
lcss_table(trace, path, i) ==
    IF i = 0 THEN [j \in 1 .. Len(path) + 1 |-> 0]
    ELSE lcss_row(lcss_table(trace, path, i - 1), trace[i], path, Len(path))

\* the inner loop of score_and_match for one trace point: the first edge of
\* the path at the least distance
nearest_match(trace_point, path) ==
    LET dist(j) == compute_distance_to_edge(trace_point, path[j])
        least == CHOOSE j \in DOMAIN path :
                    /\ \A k \in DOMAIN path : dist(j) <= dist(k)
                    /\ \A k \in 1 .. j - 1 : dist(k) > dist(j)
        found == dist(least) < Infinity
        min_dist == IF found THEN dist(least) ELSE Infinity
    IN  PointMatch(IF found THEN path[least] ELSE path[1],
                   IF min_dist > distance_threshold THEN Infinity
                   ELSE min_dist)

\* TrajectorySegment::score_and_match: [err, seg]
score_and_match(seg) ==
    LET m == Len(seg.trace)
        n == Len(seg.path)
    IN  IF m = 0 THEN [err |-> "EmptyTrace", seg |-> seg]
        ELSE IF n = 0
        THEN [err |-> "Ok",
              seg |-> [seg EXCEPT
                         !.score = ScoreZero,
                         !.matches = [i \in 1 .. m |->
                                         PointMatch(<<0, 0>>, Infinity)]]]
        ELSE
            LET point_matches ==
                    [i \in 1 .. m |-> nearest_match(seg.trace[i], seg.path)]
                c_m_n == lcss_table(seg.trace, seg.path, m)[n + 1]
                first_point_dist == point_matches[1].distance_to_edge
                last_point_dist == point_matches[m].distance_to_edge
                plain == <<c_m_n, distance_epsilon * Min(m, n)>>
                penalised ==
                    IF is_infinite(first_point_dist)
                       \/ is_infinite(last_point_dist)
                    THEN ScoreZero
                    ELSE <<2 * c_m_n,
                           Min(m, n) * (Max(first_point_dist, distance_epsilon)
                                        + Max(last_point_dist, distance_epsilon))>>
            IN  [err |-> "Ok",
                 seg |-> [seg EXCEPT
                            !.matches = point_matches,
                            !.score =
                                IF first_point_dist > distance_epsilon
                                   \/ last_point_dist > distance_epsilon
                                THEN penalised ELSE plain]]

\* mutant: every repeated edge is removed, not only the consecutive ones
RECURSIVE dedup_all(_)
dedup_all(path) ==
    IF path = << >> THEN << >>
    ELSE LET front == dedup_all(SubSeq(path, 1, Len(path) - 1))
             x == path[Len(path)]
         IN  IF \E i \in DOMAIN front : front[i] = x THEN front
             ELSE Append(front, x)

\* Vec::dedup: of every run of equal consecutive elements the first is kept
RECURSIVE dedup(_)
dedup(path) ==
    IF path = << >> THEN << >>
    ELSE LET front == dedup(SubSeq(path, 1, Len(path) - 1))
             x == path[Len(path)]
         IN  IF front # << >> /\ front[Len(front)] = x THEN front
             ELSE Append(front, x)

\* what the graph and the search can answer when join_segments asks to
\* connect two paths: a failure, or the path that fills the gap (empty when
\* the vertices are the same or no path exists)
GapPaths == {<< >>} \cup {<<e>> : e \in Edges}
GapAnswers == {[err |-> "InternalError", path |-> << >>],
               [err |-> "SearchError", path |-> << >>]}
              \cup {[err |-> "Ok", path |-> p] : p \in GapPaths}

\* the loop of join_segments over segments[i..]: the set of [err, points,
\* path] it can end with
RECURSIVE join_loop(_, _, _, _)
join_loop(segments, i, total_points, total_path) ==
    IF i > Len(segments)
    THEN {[err |-> "Ok", points |-> total_points, path |-> total_path]}
    ELSE
        LET points == total_points \o segments[i].trace
            curr_path == segments[i].path
            asks == /\ i > 1
                    /\ segments[i - 1].path # << >>
                    /\ curr_path # << >>
                    /\ segments[i - 1].path[Len(segments[i - 1].path)]
                          # curr_path[1]
            answers == IF asks THEN GapAnswers
                       ELSE {[err |-> "Ok", path |-> << >>]}
        IN  UNION {
                IF a.err # "Ok"
                THEN {[err |-> a.err, points |-> points, path |-> total_path]}
                ELSE join_loop(segments, i + 1, points,
                               total_path \o a.path \o curr_path)
                : a \in answers}

\* join_segments(lcss, segments, si): the set of [err, seg] it can return
join_segments(segments) ==
    IF segments = << >>
    THEN {[err |-> "InternalError", seg |-> new_segment(<< >>, << >>)]}
    ELSE {IF r.err # "Ok"
          THEN [err |-> r.err, seg |-> new_segment(<< >>, << >>)]
          ELSE score_and_match(new_segment(r.points, dedup(r.path)))
          : r \in join_loop(segments, 1, << >>, << >>)}

(* ------------------------ join_segments on its own --------------------- *)
MaxJoinTrace == 2
MaxJoinPath == 3

\* the traces of n points that begin at place first of the input trace
TracesOf(first, n) ==
    {[k \in 1 .. n |-> TracePoint(first + k - 1, c[k])] : c \in [1 .. n -> Coords]}

JoinPaths == UNION {[1 .. n -> Edges] : n \in 0 .. MaxJoinPath}

\* one segment with a trace of up to MaxJoinTrace points, or two segments of
\* one point each
JoinInputs ==
    LET single == {<<new_segment(t, p)>> :
                      t \in UNION {TracesOf(1, n) : n \in 1 .. MaxJoinTrace},
                      p \in JoinPaths}
        pairs == {<<new_segment(t1, p1), new_segment(t2, p2)>> :
                      t1 \in TracesOf(1, 1), t2 \in TracesOf(2, 1),
                      p1 \in JoinPaths, p2 \in JoinPaths}
    IN  single \cup pairs

InitJoin ==
    /\ SearchIdle
    /\ cut = NoCut
    /\ mt = NoMatch
    /\ refine = NoRefine
    /\ tseg = NoTseg
    /\ AppIdle
    /\ \E segments \in JoinInputs :
          joined = [NoJoin EXCEPT !.segments = segments]

Join ==
    /\ ~joined.done
    /\ \E r \in join_segments(joined.segments) :
          joined' = [joined EXCEPT !.done = TRUE, !.err = r.err, !.seg = r.seg]
    /\ UNCHANGED <<searchVars, cut, mt, refine, tseg, appVars>>

NextJoin == Join

SpecJoin == InitJoin /\ [][NextJoin]_vars

\* the elements of path that are not equal to the element just before them
WithoutConsecutiveRepeats(path) ==
    LET keep == {i \in DOMAIN path : i = 1 \/ path[i] # path[i - 1]}
        nth(k) == CHOOSE i \in keep : Cardinality({j \in keep : j <= i}) = k
    IN  [k \in 1 .. Cardinality(keep) |-> path[nth(k)]]

\* C18: joining a list that holds a single segment yields a segment whose
\* trace equals the input segment's trace and whose path equals the input
\* segment's path with consecutive duplicate edges removed.
C18_JoinSingleSegment ==
    (joined.done /\ Len(joined.segments) = 1) =>
        /\ joined.err = "Ok"
        /\ joined.seg.trace = joined.segments[1].trace
        /\ joined.seg.path = WithoutConsecutiveRepeats(joined.segments[1].path)

\* a single segment of two points whose path repeats its first edge at once
\* and goes on with another edge
C18_Witness ==
    /\ joined.done
    /\ Len(joined.segments) = 1
    /\ \E a, b \in Edges :
          a # b /\ joined.segments[1].path = <<a, a, b>>
                /\ joined.seg.path = <<a, b>>
    /\ Len(joined.seg.trace) = 2

(* ======================================================================= *)
(*                    LCSS map matching: match_trace                       *)
(* ======================================================================= *)
\* dist < Length::new::<meter>(0.001), in units of the line
stationary_distance == 1

\* the loop of find_stationary_points from index i (indices from 0) and the
\* push after the loop
RECURSIVE stationary_loop(_, _, _, _)
stationary_loop(trace, i, collections, current_index) ==
    IF i >= Len(trace)
    THEN IF current_index # << >> THEN Append(collections, current_index)
         ELSE collections
    ELSE
        LET dist == haversine_distance(trace[i].coord, trace[i + 1].coord)
        IN  IF dist = {}
            THEN stationary_loop(trace, i + 1, collections, current_index)
            ELSE IF \E d \in dist : d < stationary_distance
            THEN stationary_loop(trace, i + 1, collections,
                                 (IF current_index = << >> THEN <<i - 1>>
                                  ELSE current_index) \o <<i>>)
            ELSE IF current_index # << >>
            THEN stationary_loop(trace, i + 1,
                                 Append(collections, current_index), << >>)
            ELSE stationary_loop(trace, i + 1, collections, current_index)

\* find_stationary_points(trace): the list of the i_index lists
find_stationary_points(trace) == stationary_loop(trace, 1, << >>, << >>)

\* the indices of every stationary collection but its first
skip_indices(stationary_indices) ==
    UNION {{s[k] : k \in 2 .. Len(s)} : s \in Range(stationary_indices)}

\* the first n points (indices 0 .. n - 1) whose index is not skipped
RECURSIVE sub_trace_points(_, _, _)
sub_trace_points(points, skip, n) ==
    IF n = 0 THEN << >>
    ELSE LET front == sub_trace_points(points, skip, n - 1)
         IN  IF (n - 1) \in skip THEN front ELSE Append(front, points[n])

\* mutant: the matches of the reduced trace are returned as they are
add_matches_without_copies(matches, stationary_indices) == matches

\* the loop of add_matches_for_stationary_points from index i
RECURSIVE add_matches_loop(_, _, _, _, _, _)
add_matches_loop(matches, skip, original_trace_len, i, final_matches, sub_trace_idx) ==
    IF i >= original_trace_len THEN final_matches
    ELSE IF i \in skip
    THEN add_matches_loop(matches, skip, original_trace_len, i + 1,
                          IF final_matches # << >>
                          THEN Append(final_matches,
                                      final_matches[Len(final_matches)])
                          ELSE final_matches,
                          sub_trace_idx)
    ELSE IF sub_trace_idx < Len(matches)
    THEN add_matches_loop(matches, skip, original_trace_len, i + 1,
                          Append(final_matches, matches[sub_trace_idx + 1]),
                          sub_trace_idx + 1)
    ELSE add_matches_loop(matches, skip, original_trace_len, i + 1,
                          final_matches, sub_trace_idx)

\* add_matches_for_stationary_points(matches, stationary_indices)
add_matches_for_stationary_points(matches, stationary_indices) ==
    LET skip == skip_indices(stationary_indices)
    IN  add_matches_loop(matches, skip, Len(matches) + Cardinality(skip),
                         0, << >>, 0)

\* Itertools::unique on a list: the first occurrence of every element
RECURSIVE unique(_)
unique(list) ==
    IF list = << >> THEN << >>
    ELSE LET front == unique(SubSeq(list, 1, Len(list) - 1))
             x == list[Len(list)]
         IN  IF x \in Range(front) THEN front ELSE Append(front, x)

\* the elements of a set of indices in ascending order
RECURSIVE in_order(_)
in_order(S) ==
    IF S = {} THEN << >>
    ELSE LET least == CHOOSE x \in S : \A y \in S : x <= y
         IN  <<least>> \o in_order(S \ {least})

\* the cutting points compute_cutting_points collects before compress
\* (indices from 0): the midpoint, or the furthest finite match (the last
\* one of equals, as Iterator::max_by) and then the matches near
\* distance_epsilon
collect_cutting_points(seg) ==
    LET d(k) == seg.matches[k + 1].distance_to_edge
        all == 0 .. Len(seg.matches) - 1
        finite == {k \in all : ~is_infinite(d(k))}
        no_match == finite = {}
        furthest == CHOOSE k \in finite :
                       /\ \A l \in finite : d(l) <= d(k)
                       /\ \A l \in finite : l > k => d(l) < d(k)
        near == {k \in finite : Abs(d(k) - distance_epsilon) < cutting_threshold}
    IN  IF seg.path = << >> \/ no_match
        THEN <<Len(seg.trace) \div 2>>
        ELSE <<furthest>> \o in_order(near)

\* usize::MAX, cut to the integers of the model checker
usize_max == 2147483647

\* a - b on usize where the build does not check for overflow: below zero
\* the difference wraps around
wrapping_sub(a, b) == IF a >= b THEN a - b ELSE usize_max + (a - b + 1)

\* the filter of line 215 with a mistake: idx > 1 is not tested first
keeps_unguarded(idx, n) == idx < wrapping_sub(n, 2)

\* line 215: |&idx| idx > 1 && idx < n - 2
keeps(idx, n) == idx > 1 /\ idx < wrapping_sub(n, 2)

\* line 215 evaluates n - 2 below zero for one of the points: && evaluates
\* its right side only when idx > 1 (a build that checks for overflow
\* panics there)
subtracts_below_zero(seg) ==
    LET compressed_points == compress(collect_cutting_points(seg))
        n == Len(seg.trace)
    IN  \E k \in DOMAIN compressed_points :
            compressed_points[k] > 1 /\ n < 2

\* TrajectorySegment::compute_cutting_points: the segment with its
\* cutting_points set
compute_cutting_points(seg) ==
    LET compressed_points == compress(collect_cutting_points(seg))
        n == Len(seg.trace)
    IN  [seg EXCEPT !.cutting_points =
            sort(SelectSeq(unique(compressed_points),
                           LAMBDA idx : keeps(idx, n)))]

(* ------------------- compute_cutting_points on its own ----------------- *)
MaxCutTrace == 7

\* the distances of a match: within distance_threshold, or none
CutDistances == (0 .. distance_threshold) \cup {Infinity}

\* a segment with a trace of m points, a path and matches
CutSegment(m, path, matches) ==
    [new_segment([k \in 1 .. m |-> TracePoint(k - 1, 0)], path)
        EXCEPT !.matches = matches]

\* compute_cutting_points is called on a trace of m points, a path or none,
\* and either no matches yet (a new segment) or the one match per trace
\* point that score_and_match leaves
InitCuttingPoints ==
    /\ SearchIdle
    /\ cut = NoCut
    /\ joined = NoJoin
    /\ mt = NoMatch
    /\ refine = NoRefine
    /\ AppIdle
    /\ \E m \in 0 .. MaxCutTrace, path \in {<< >>, <<<<0, 1>>>>} :
          \/ tseg = [NoTseg EXCEPT !.seg = CutSegment(m, path, << >>)]
          \/ \E d \in [1 .. m -> CutDistances] :
                tseg = [NoTseg EXCEPT !.seg =
                          CutSegment(m, path,
                              [k \in 1 .. m |-> PointMatch(<<0, 1>>, d[k])])]

ComputeCuttingPoints ==
    /\ ~tseg.done
    /\ tseg' = [seg |-> compute_cutting_points(tseg.seg), done |-> TRUE,
                below_zero |-> subtracts_below_zero(tseg.seg)]
    /\ UNCHANGED <<searchVars, cut, joined, mt, refine, appVars>>

NextCuttingPoints == ComputeCuttingPoints

SpecCuttingPoints == InitCuttingPoints /\ [][NextCuttingPoints]_vars

\* C27: after compute_cutting_points on a segment whose trace has m points,
\* cutting_points is sorted ascending, has no duplicates, and every index
\* idx in it satisfies idx > 1 and idx < m - 2, for every m including m < 2:
\* the bound m - 2 is never evaluated below zero.
C27_CuttingPointsInside ==
    tseg.done =>
        LET cutting_points == tseg.seg.cutting_points
            m == Len(tseg.seg.trace)
        IN  /\ \A i, j \in DOMAIN cutting_points :
                  i < j => cutting_points[i] < cutting_points[j]
            /\ \A i \in DOMAIN cutting_points :
                  cutting_points[i] > 1 /\ cutting_points[i] < m - 2
            /\ ~tseg.below_zero

\* two cutting points were kept, of a trace whose first and last points
\* were collected too and filtered out
C27_Witness ==
    /\ tseg.done
    /\ Len(tseg.seg.cutting_points) = 2
    /\ tseg.seg.matches # << >>
    /\ tseg.seg.matches[1].distance_to_edge = distance_epsilon
    /\ tseg.seg.matches[Len(tseg.seg.trace)].distance_to_edge = distance_epsilon

\* a trace of fewer than two points has no cutting point
C27_ShortTrace ==
    (tseg.done /\ Len(tseg.seg.trace) < 2) => tseg.seg.cutting_points = << >>

\* what new_path_for_trace can answer: a failure of the search, or a path
\* (empty when no candidate edge or no path is found)
MatchPaths == {<< >>, <<<<0, 1>>>>, <<<<0, 1>>, <<0, 2>>>>}
PathAnswers == {[err |-> "SearchError", path |-> << >>]}
               \cup {[err |-> "Ok", path |-> p] : p \in MatchPaths}

\* the loop of split_segment with a mistake: the slice [last_idx, cp] takes
\* the point at the cutting point too
RECURSIVE split_loop_inclusive(_, _, _, _)
split_loop_inclusive(seg, k, last_idx, result) ==
    LET at_rest == k > Len(seg.cutting_points)
        cp == IF at_rest THEN Len(seg.trace) ELSE seg.cutting_points[k]
        sub_points == SubSeq(seg.trace, last_idx + 1,
                             IF at_rest THEN cp ELSE cp + 1)
        answers == IF sub_points = << >> THEN {[err |-> "Ok", path |-> << >>]}
                   ELSE PathAnswers
        pushed(a) == IF sub_points = << >> THEN result
                     ELSE Append(result, new_segment(sub_points, a.path))
    IN  UNION {
            IF a.err # "Ok" THEN {[err |-> a.err, segments |-> << >>]}
            ELSE IF at_rest THEN {[err |-> "Ok", segments |-> pushed(a)]}
            ELSE split_loop_inclusive(seg, k + 1, cp, pushed(a))
            : a \in answers}

\* the loop of split_segment over cutting_points[k..] and the rest after the
\* loop: the set of [err, segments] it can end with
RECURSIVE split_loop(_, _, _, _)
split_loop(seg, k, last_idx, result) ==
    LET at_rest == k > Len(seg.cutting_points)
        cp == IF at_rest THEN Len(seg.trace) ELSE seg.cutting_points[k]
        sub_points == SubSeq(seg.trace, last_idx + 1, cp)
        answers == IF sub_points = << >> THEN {[err |-> "Ok", path |-> << >>]}
                   ELSE PathAnswers
        pushed(a) == IF sub_points = << >> THEN result
                     ELSE Append(result, new_segment(sub_points, a.path))
    IN  UNION {
            IF a.err # "Ok" THEN {[err |-> a.err, segments |-> << >>]}
            ELSE IF at_rest THEN {[err |-> "Ok", segments |-> pushed(a)]}
            ELSE split_loop(seg, k + 1, cp, pushed(a))
            : a \in answers}

\* TrajectorySegment::split_segment(si): the set of [err, segments]
split_segment(seg) ==
    IF Len(seg.trace) < 2 \/ seg.cutting_points = << >>
    THEN {[err |-> "Ok", segments |-> <<seg>>]}
    ELSE split_loop(seg, 1, 0, << >>)

(* --------------------------- match_trace ------------------------------- *)
MaxTrace == 8

\* for _ in 0..10
max_rounds == 10

\* the coordinates of the input traces of n points: a vehicle that drives
\* along the road from edge 1 towards edge 2, stands still now and then, and
\* reports at most one point that is not a valid coordinate
RECURSIVE TraceCoords(_)
TraceCoords(n) ==
    IF n = 0 THEN {<< >>}
    ELSE LET ok(c) ==
                 /\ \A i \in 1 .. n - 1 :
                       (c[i] # OffMap /\ c[n] # OffMap) => c[i] <= c[n]
                 /\ c[n] = OffMap => \A i \in 1 .. n - 1 : c[i] # OffMap
         IN  {c \in {Append(front, x) : front \in TraceCoords(n - 1),
                                        x \in Coords \cup {OffMap}} : ok(c)}

\* the input traces: up to MaxTrace points
MatchTraces ==
    UNION {{[k \in 1 .. n |-> TracePoint(k - 1, c[k])] : c \in TraceCoords(n)}
           : n \in 0 .. MaxTrace}

InitMatch ==
    /\ SearchIdle
    /\ cut = NoCut
    /\ joined = NoJoin
    /\ refine = NoRefine
    /\ tseg = NoTseg
    /\ AppIdle
    /\ \E trace \in MatchTraces :
          mt = [NoMatch EXCEPT !.trace = trace, !.pc = "called"]

\* return Err(..)
MatchFailed(err) == mt' = [mt EXCEPT !.pc = "failed", !.err = err]

\* lines 105-137: the checks, the stationary compression, the initial path
\* and segment, and its first split
MatchStart ==
    /\ mt.pc = "called"
    /\ \E is_edge_oriented \in BOOLEAN :
          IF mt.trace = << >> THEN MatchFailed("EmptyTrace")
          ELSE IF ~is_edge_oriented THEN MatchFailed("InternalError")
          ELSE
            LET stationary_indices == find_stationary_points(mt.trace)
                sub_trace == sub_trace_points(mt.trace,
                                              skip_indices(stationary_indices),
                                              Len(mt.trace))
            IN  \E initial_path \in PathAnswers :
                  IF initial_path.err # "Ok" THEN MatchFailed(initial_path.err)
                  ELSE
                    LET scored == score_and_match(
                                      new_segment(sub_trace, initial_path.path))
                    IN  IF scored.err # "Ok" THEN MatchFailed(scored.err)
                        ELSE
                          \E s \in split_segment(compute_cutting_points(scored.seg)) :
                            IF s.err # "Ok" THEN MatchFailed(s.err)
                            ELSE mt' = [mt EXCEPT
                                          !.pc = "round",
                                          !.stationary_indices = stationary_indices,
                                          !.sub_trace = sub_trace,
                                          !.scheme = s.segments,
                                          !.next_scheme = << >>,
                                          !.i = 1,
                                          !.changed = FALSE,
                                          !.round = 0]
    /\ UNCHANGED <<searchVars, cut, joined, refine, tseg, appVars>>

\* lines 143-164: the body of the inner loop for the segment scheme[i]
RoundSegment ==
    /\ mt.pc = "round"
    /\ mt.i <= Len(mt.scheme)
    /\ LET scored == score_and_match(mt.scheme[mt.i])
           segment == compute_cutting_points(scored.seg)
           \* next_scheme.push(segment), with the scores that were compared
           push_segment(joined_score) ==
               mt' = [mt EXCEPT !.next_scheme = Append(@, segment),
                                !.segment_score = {segment.score},
                                !.joined_score = joined_score,
                                !.i = @ + 1]
       IN  IF scored.err # "Ok" THEN MatchFailed(scored.err)
           ELSE IF ~ScoreLess(segment.score, similarity_cutoff)
           THEN push_segment({})
           ELSE
             \E new_split \in split_segment(segment) :
               IF new_split.err # "Ok" THEN MatchFailed(new_split.err)
               ELSE IF Len(new_split.segments) > 1
               THEN \E j \in join_segments(new_split.segments) :
                      IF j.err # "Ok" THEN MatchFailed(j.err)
                      ELSE IF ScoreLess(segment.score, j.seg.score)
                      THEN mt' = [mt EXCEPT
                                    !.next_scheme = @ \o new_split.segments,
                                    !.changed = TRUE,
                                    !.splits = @ + 1,
                                    !.segment_score = {segment.score},
                                    !.joined_score = {j.seg.score},
                                    !.i = @ + 1]
                      ELSE push_segment({j.seg.score})
               ELSE push_segment({})
    /\ UNCHANGED <<searchVars, cut, joined, refine, tseg, appVars>>

\* line 139, for _ in 0..10, with a mistake: the range has no end
has_next_round_unbounded(round) == TRUE

\* line 139, for _ in 0..10: the range has a round after the round `round`
has_next_round(round) == round + 1 < max_rounds

\* lines 166-169 and the head of the outer loop: the break when nothing
\* changed, else the next scheme and the next round, if one is left
RoundEnd ==
    /\ mt.pc = "round"
    /\ mt.i > Len(mt.scheme)
    /\ IF ~mt.changed THEN mt' = [mt EXCEPT !.pc = "join"]
       ELSE mt' = [mt EXCEPT
                     !.scheme = mt.next_scheme,
                     !.next_scheme = << >>,
                     !.changed = FALSE,
                     !.i = 1,
                     !.round = @ + 1,
                     !.pc = IF has_next_round(mt.round) THEN "round"
                            ELSE "join"]
    /\ UNCHANGED <<searchVars, cut, joined, refine, tseg, appVars>>

\* lines 172-177: the final join, the matches of the stationary points and
\* the result
FinalJoin ==
    /\ mt.pc = "join"
    /\ \E final_segment \in join_segments(mt.scheme) :
          IF final_segment.err # "Ok" THEN MatchFailed(final_segment.err)
          ELSE mt' = [mt EXCEPT
                        !.pc = "done",
                        !.point_matches =
                            add_matches_for_stationary_points(
                                final_segment.seg.matches,
                                mt.stationary_indices),
                        !.path = final_segment.seg.path]
    /\ UNCHANGED <<searchVars, cut, joined, refine, tseg, appVars>>

NextMatch == MatchStart \/ RoundSegment \/ RoundEnd \/ FinalJoin

SpecMatch == InitMatch /\ [][NextMatch]_vars

\* C16: whenever match_trace succeeds on a non-empty input trace, the
\* returned point_matches has exactly as many entries as the input trace,
\* whatever stationary groups were compressed and whatever splits and joins
\* were performed.
C16_OneMatchPerPoint ==
    (mt.pc = "done" /\ mt.trace # << >>) =>
        Len(mt.point_matches) = Len(mt.trace)

\* a successful run in which stationary points were left out of the
\* sub-trace, the loop accepted a split, and the final join joined several
\* segments
C16_Witness ==
    /\ mt.pc = "done"
    /\ Len(mt.sub_trace) < Len(mt.trace)
    /\ mt.splits > 0
    /\ Len(mt.scheme) > 1
    /\ Len(mt.point_matches) = Len(mt.trace)

(* ----------------------------------------------------------------------- *)
(* The refinement loop of match_trace by itself (lines 139-172): a round   *)
(* is one step, and what the body of the round did with the segments, an   *)
(* input: it replaced `grown` segments by their splits, it replaced none,  *)
(* or one of its calls returned an error.  Traces long enough for ten      *)
(* rounds of accepted splits are out of reach of SpecMatch.                *)
(* ----------------------------------------------------------------------- *)
MaxSegments == 24
MaxGrown == 2

RoundOutcomes == {"changed", "unchanged", "failed"}

\* line 137: the scheme after the first split
InitRefine ==
    /\ SearchIdle
    /\ cut = NoCut
    /\ joined = NoJoin
    /\ mt = NoMatch
    /\ tseg = NoTseg
    /\ AppIdle
    /\ \E n \in 1 .. 3 :
          refine = [pc |-> "round", round |-> 0, segments |-> n, err |-> "Ok"]

\* lines 140-169: one round of the loop
RefineRound ==
    /\ refine.pc = "round"
    /\ \E outcome \in RoundOutcomes, grown \in 1 .. MaxGrown :
          CASE outcome = "failed" ->
                 \* the ? of lines 144, 150 and 153
                 refine' = [refine EXCEPT !.pc = "failed", !.err = "round"]
            [] outcome = "unchanged" ->
                 \* line 166: break, scheme is left as it is
                 refine' = [refine EXCEPT !.pc = "join"]
            [] outcome = "changed" ->
                 \* line 155 at least once, then line 169
                 /\ refine.segments + grown <= MaxSegments
                 /\ refine' = [refine EXCEPT
                                 !.segments = @ + grown,
                                 !.round = @ + 1,
                                 !.pc = IF has_next_round(refine.round)
                                        THEN "round" ELSE "join"]
    /\ UNCHANGED <<searchVars, cut, joined, mt, tseg, appVars>>

\* line 172: the final join
RefineJoin ==
    /\ refine.pc = "join"
    /\ \E ok \in BOOLEAN :
          refine' = IF ok THEN [refine EXCEPT !.pc = "done"]
                    ELSE [refine EXCEPT !.pc = "failed", !.err = "join"]
    /\ UNCHANGED <<searchVars, cut, joined, mt, tseg, appVars>>

NextRefine == RefineRound \/ RefineJoin

SpecRefine == InitRefine /\ [][NextRefine]_vars

\* the rounds of the loop: at most max_rounds of them, each one after a
\* round that replaced a segment, and the loop left at the first round that
\* replaced none
RoundsOfRefine ==
    refine.pc = "round" =>
        /\ refine.round < max_rounds
        /\ refine'.pc = "round" =>
              /\ refine'.round = refine.round + 1
              /\ refine'.segments > refine.segments
        /\ (refine'.segments = refine.segments /\ refine'.pc # "round")
              => refine'.pc \in {"join", "failed"}
        /\ (refine'.pc = "join" /\ refine'.segments > refine.segments)
              => refine'.round = max_rounds

\* C25 as stated: the refinement loop of match_trace runs at most 10 rounds
\* and stops at the first round in which no segment is replaced by a split,
\* and the loop is only ever left for the final join.
C25_AlwaysFinalJoin ==
    [][RoundsOfRefine /\ (refine.pc = "round" => refine'.pc \in {"round", "join"})]_vars

\* C25, amended: the refinement loop of match_trace runs at most 10 rounds
\* and stops at the first round in which no segment is replaced by a split,
\* so the loop always ends: match_trace reaches the final join, unless a
\* call inside a round fails, and then it returns that error.
C25_LoopEnds ==
    [][RoundsOfRefine /\ (refine.pc = "round" => refine'.pc \in {"round", "join", "failed"})]_vars

\* the tenth round replaced a segment as the nine before it did, and the
\* loop is over
C25_Witness ==
    /\ refine.pc = "join"
    /\ refine.round = max_rounds
    /\ refine.segments >= max_rounds

\* the traces of the segments, one after the other
RECURSIVE ConcatTraces(_)
ConcatTraces(segments) ==
    IF segments = << >> THEN << >>
    ELSE Head(segments).trace \o ConcatTraces(Tail(segments))

\* what the last step of the inner loop added to next_scheme
Added == SubSeq(mt'.next_scheme, Len(mt.next_scheme) + 1, Len(mt'.next_scheme))

\* the last step carried the segment scheme[i] over, unsplit
Unsplit ==
    /\ Len(Added) = 1
    /\ Added[1].trace = mt.scheme[mt.i].trace
    /\ Added[1].path = mt.scheme[mt.i].path

\* the segment scored below similarity_cutoff
BelowCutoff(m) ==
    \E s \in m.segment_score :
        s[1] * similarity_cutoff[2] < similarity_cutoff[1] * s[2]

\* a split of the segment was joined again and scored strictly better
JoinedBetter(m) ==
    \E s \in m.segment_score, j \in m.joined_score : s[1] * j[2] < j[1] * s[2]

\* C26: in each refinement round a segment is replaced by its split only if
\* its score is below similarity_cutoff and the re-joined split scores
\* strictly better than the segment; a segment at or above the cutoff, or
\* whose split does not score strictly better, is carried into the next
\* scheme unsplit.
C26_SplitOnlyIfBetter ==
    [][(mt.pc = "round" /\ mt'.pc = "round" /\ mt'.i = mt.i + 1) =>
          /\ mt'.segment_score # {}
          /\ ~Unsplit =>
                /\ BelowCutoff(mt')
                /\ JoinedBetter(mt')
                /\ Len(Added) > 1
                /\ ConcatTraces(Added) = mt.scheme[mt.i].trace
          /\ ~(BelowCutoff(mt') /\ JoinedBetter(mt')) => Unsplit]_vars

\* a segment below the cutoff has just been replaced by the several
\* segments of its split, which scored strictly better when joined again
C26_Witness ==
    /\ mt.pc = "round"
    /\ mt.changed
    /\ mt.i > 1
    /\ Len(mt.next_scheme) > 1
    /\ BelowCutoff(mt)
    /\ JoinedBetter(mt)

\* C30: at every point of match_trace, concatenating the traces of the
\* segments of the current scheme, in order, gives exactly the
\* stationary-compressed sub-trace: split_segment and join_segments never
\* drop, duplicate or reorder a trace point, and split_segment never
\* produces an empty segment.  The same holds of the next scheme while a
\* round builds it from the segments before scheme[i].
C30_SchemeIsSubTrace ==
    mt.pc \in {"round", "join", "done"} =>
        /\ ConcatTraces(mt.scheme) = mt.sub_trace
        /\ \A k \in DOMAIN mt.scheme : mt.scheme[k].trace # << >>
        /\ \A k \in DOMAIN mt.next_scheme : mt.next_scheme[k].trace # << >>
        /\ mt.pc = "round" =>
              ConcatTraces(mt.next_scheme)
                  = ConcatTraces(SubSeq(mt.scheme, 1, mt.i - 1))
        /\ mt.pc = "join" =>
              \A j \in join_segments(mt.scheme) :
                  j.err = "Ok" => j.seg.trace = mt.sub_trace
        /\ mt.pc = "done" => Len(mt.point_matches) = Len(mt.trace)

\* the final join is reached with a scheme of more than two segments that
\* a round of accepted splits left, over a sub-trace from which stationary
\* points were taken out
C30_Witness ==
    /\ mt.pc = "join"
    /\ mt.round >= 1
    /\ Len(mt.scheme) > 2
    /\ Len(mt.sub_trace) < Len(mt.trace)

\* the same for the loop with its body, on the traces of SpecMatch; there a
\* round that replaced a segment has a longer next scheme
RoundsOfMatchTrace ==
    [][mt.pc = "round" =>
          /\ mt.round < max_rounds
          /\ mt'.pc \in {"round", "join", "failed"}
          /\ mt'.round # mt.round =>
                (mt.changed /\ mt'.round = mt.round + 1
                            /\ Len(mt'.scheme) > Len(mt.scheme))
          /\ mt'.pc = "join" =>
                (~mt.changed \/ mt'.round = max_rounds)
          /\ (mt.i > Len(mt.scheme) /\ ~mt.changed) => mt'.pc = "join"]_vars

(* ======================================================================= *)
(*                 batch scheduler: apply_load_balancing_policy            *)
(* ======================================================================= *)
MaxQueries == 4
MaxBins == 3
MaxWeight == 2

\* the weight of a query without an estimate (the argument default)
default_weight == 1

\* what get_query_weight_estimate answers for a query: an error for a
\* field it cannot read as a number, else the estimate if there is one
Estimates ==
    {[err |-> "PluginError", w |-> {}]}
    \cup {[err |-> "Ok", w |-> {}]}
    \cup {[err |-> "Ok", w |-> {x}] : x \in 0 .. MaxWeight}

\* a query: its place in the input and its estimate
Query(i, e) == [index |-> i, estimate |-> e]

QueryLists ==
    UNION {{[i \in 1 .. n |-> Query(i, e[i])] : e \in [1 .. n -> Estimates]}
           : n \in 0 .. MaxQueries}

\* q.get_query_weight_estimate()?.unwrap_or(default): [err, w]
query_weight(q, default) ==
    IF q.estimate.err # "Ok" THEN [err |-> q.estimate.err, w |-> 0]
    ELSE IF q.estimate.w = {} THEN [err |-> "Ok", w |-> default]
    ELSE [err |-> "Ok", w |-> CHOOSE x \in q.estimate.w : TRUE]

\* mutant: of equal bins the last one is taken
RECURSIVE min_by_key_last(_, _, _)
min_by_key_last(bins, i, best) ==
    IF i > Len(bins) THEN best
    ELSE min_by_key_last(bins, i + 1, IF bins[i] <= bins[best] THEN i ELSE best)

\* mutant: the bin of the greatest total is taken
RECURSIVE max_by_key(_, _, _)
max_by_key(bins, i, best) ==
    IF i > Len(bins) THEN best
    ELSE max_by_key(bins, i + 1, IF bins[i] > bins[best] THEN i ELSE best)

\* Iterator::min_by_key over bins[i..]: best is replaced only by a bin that
\* is strictly smaller, so of equal bins the first one is kept
RECURSIVE min_by_key(_, _, _)
min_by_key(bins, i, best) ==
    IF i > Len(bins) THEN best
    ELSE min_by_key(bins, i + 1, IF bins[i] < bins[best] THEN i ELSE best)

\* min_bin(bins): [err, bin], bins counted from 1
min_bin(bins) ==
    IF bins = << >> THEN [err |-> "InternalError", bin |-> 0]
    ELSE [err |-> "Ok", bin |-> min_by_key(bins, 2, 1)]

\* mutant: the query takes the place of what the bin held
push_replaces(assignments, bin, q) == [assignments EXCEPT ![bin] = <<q>>]

\* assignments[min_bin].push(q)
push_query(assignments, bin, q) ==
    [assignments EXCEPT ![bin] = Append(assignments[bin], q)]

InitSchedule ==
    /\ SearchIdle
    /\ LcssIdle
    /\ run = NoRun
    /\ summary = NoSummary
    /\ \E queries \in QueryLists, parallelism \in 0 .. MaxBins :
          sched = [NoSched EXCEPT !.queries = queries,
                                  !.parallelism = parallelism,
                                  !.pc = "called"]

\* lines 63-69: the early return for no queries, else the empty bins
Begin ==
    /\ sched.pc = "called"
    /\ sched' =
          IF sched.queries = << >>
          THEN [sched EXCEPT !.pc = "Ok"]
          ELSE [sched EXCEPT !.pc = "loop",
                             !.bin_totals = [b \in 1 .. sched.parallelism |-> 0],
                             !.assignments = [b \in 1 .. sched.parallelism |-> << >>]]
    /\ UNCHANGED <<searchVars, lcssVars, run, summary>>

\* lines 76-84: one turn of the loop
Assign ==
    /\ sched.pc = "loop"
    /\ sched.next <= Len(sched.queries)
    /\ LET q == sched.queries[sched.next]
           w == query_weight(q, default_weight)
           m == min_bin(sched.bin_totals)
       IN  sched' =
             IF w.err # "Ok" THEN [sched EXCEPT !.pc = w.err]
             ELSE IF m.err # "Ok" THEN [sched EXCEPT !.pc = m.err]
             ELSE [sched EXCEPT
                     !.bin_totals[m.bin] = @ + w.w,
                     !.assignments = push_query(@, m.bin, q),
                     !.next = @ + 1]
    /\ UNCHANGED <<searchVars, lcssVars, run, summary>>

\* line 85: Ok(assignments)
Return ==
    /\ sched.pc = "loop"
    /\ sched.next > Len(sched.queries)
    /\ sched' = [sched EXCEPT !.pc = "Ok"]
    /\ UNCHANGED <<searchVars, lcssVars, run, summary>>

NextSchedule == Begin \/ Assign \/ Return

SpecSchedule == InitSchedule /\ [][NextSchedule]_vars

(* ----------------------- properties of the scheduler ------------------- *)
\* the places where query number i sits in the batches
PlacesOf(i) ==
    {<<b, k>> \in (DOMAIN sched.assignments) \X (1 .. MaxQueries + 1) :
        k \in DOMAIN sched.assignments[b] /\ sched.assignments[b][k].index = i}

\* C19: when apply_load_balancing_policy returns its batches, every input
\* query is in exactly one batch at exactly one place, unchanged, and the
\* batches hold nothing else.
C19_Conservation ==
    sched.pc = "Ok" =>
        /\ \A i \in DOMAIN sched.queries :
              /\ Cardinality(PlacesOf(i)) = 1
              /\ \A bk \in PlacesOf(i) :
                    sched.assignments[bk[1]][bk[2]] = sched.queries[i]
        /\ \A b \in DOMAIN sched.assignments :
              \A k \in DOMAIN sched.assignments[b] :
                  sched.assignments[b][k].index \in DOMAIN sched.queries

\* all the queries were scheduled and one batch holds two of them while
\* another holds one
C19_Witness ==
    /\ sched.pc = "Ok"
    /\ Len(sched.queries) = MaxQueries
    /\ \E b, c \in DOMAIN sched.assignments :
          Len(sched.assignments[b]) >= 2 /\ Len(sched.assignments[c]) = 1

\* C20: each turn of the loop takes the next query of the input and puts it
\* at the end of the bin whose running total is smallest, the lowest-index
\* one of equal bins, and adds the query's estimate, or the default weight if
\* it has none, to that bin's total; nothing else changes.
C20_GreedyLeastLoaded ==
    [][(sched.pc = "loop" /\ sched'.pc = "loop") =>
        LET q == sched.queries[sched.next]
            w == IF q.estimate.w = {} THEN default_weight
                 ELSE CHOOSE x \in q.estimate.w : TRUE
        IN  /\ sched'.next = sched.next + 1
            /\ \E b \in DOMAIN sched.bin_totals :
                  /\ \A c \in DOMAIN sched.bin_totals :
                        /\ sched.bin_totals[b] <= sched.bin_totals[c]
                        /\ c < b => sched.bin_totals[b] < sched.bin_totals[c]
                  /\ sched'.bin_totals =
                        [sched.bin_totals EXCEPT ![b] = @ + w]
                  /\ sched'.assignments =
                        [sched.assignments EXCEPT ![b] = Append(@, q)]]_vars

\* a query without an estimate went to the second of three bins: the first
\* bin was heavier and the third as light as the second
C20_Witness ==
    /\ sched.pc = "loop"
    /\ sched.parallelism = 3
    /\ sched.next = 4
    /\ sched.queries[3].estimate.w = {}
    /\ sched.assignments[2] # << >>
    /\ sched.assignments[2][Len(sched.assignments[2])].index = 3
    /\ sched.bin_totals[1] > sched.bin_totals[2] - default_weight
    /\ sched.bin_totals[3] = sched.bin_totals[2] - default_weight

\* the weight the policy counts for query q
WeightOf(q) ==
    IF q.estimate.w = {} THEN default_weight
    ELSE CHOOSE x \in q.estimate.w : TRUE

\* the total weight of the first n queries that place puts in bin b
RECURSIVE BinTotal(_, _, _, _)
BinTotal(queries, place, b, n) ==
    IF n = 0 THEN 0
    ELSE BinTotal(queries, place, b, n - 1)
         + (IF place[n] = b THEN WeightOf(queries[n]) ELSE 0)

\* the greatest element of a non-empty set of numbers
Greatest(S) == CHOOSE x \in S : \A y \in S : y <= x

\* the least element of a non-empty set of numbers
Least(S) == CHOOSE x \in S : \A y \in S : x <= y

\* the largest bin total of the best assignment of queries to bins bins
OptimalLargest(queries, bins) ==
    Least({Greatest({BinTotal(queries, place, b, Len(queries)) : b \in 1 .. bins})
           : place \in [DOMAIN queries -> 1 .. bins]})

\* the largest bin total of the assignment the policy made
LargestTotal == Greatest(Range(sched.bin_totals))

\* C21: when apply_load_balancing_policy returns batches for queries of
\* non-negative weights, its largest bin total is at most twice the largest
\* bin total of an optimal assignment of the same queries to the same number
\* of bins.
C21_TwiceOptimal ==
    (sched.pc = "Ok" /\ sched.queries # << >>) =>
        LargestTotal <= 2 * OptimalLargest(sched.queries, sched.parallelism)

\* the policy returned an assignment that is not optimal: its largest bin is
\* heavier than the largest bin of the best assignment
C21_Witness ==
    /\ sched.pc = "Ok"
    /\ sched.queries # << >>
    /\ sched.parallelism >= 2
    /\ LargestTotal > OptimalLargest(sched.queries, sched.parallelism)
    /\ LargestTotal <= 2 * OptimalLargest(sched.queries, sched.parallelism)

(* ======================================================================= *)
(*          batch runs: run_batch_with_responses and run_batch             *)
(* ======================================================================= *)
MaxRunQueries == 3
MaxWorkers == 2

\* what goes wrong inside a query: nothing, the search, or an output plugin
Failures == {"none", "search", "plugin"}

\* a query of a batch run: its place in the input and what fails inside it
RunQuery(i, fails) == [index |-> i, fails |-> fails]

RunQueryLists ==
    UNION {{[i \in 1 .. n |-> RunQuery(i, f[i])] : f \in [1 .. n -> Failures]}
           : n \in 0 .. MaxRunQueries}

\* a response object: the query it answers and whether it has an "error" key
Response(i, error) == [index |-> i, error |-> error]
NoResponse == Response(0, FALSE)

\* search_app.run(query): "Ok" or "Err"
search_app_run(q) == IF q.fails = "search" THEN "Err" ELSE "Ok"

\* out_ops::create_initial_output: [err, value]; for a failed search the
\* value is the error value, an object with the "error" key
create_initial_output(q, result) ==
    IF result = "Err" THEN [err |-> "Err", value |-> Response(q.index, TRUE)]
    ELSE [err |-> "Ok", value |-> Response(q.index, FALSE)]

\* out_ops::package_error(request_json, e)
package_error(q) == Response(q.index, TRUE)

\* apply_output_processing(request_json, result, search_app, output_plugins):
\* the response value
apply_output_processing(q, result) ==
    LET initial == create_initial_output(q, result)
    IN  IF initial.err # "Ok" THEN initial.value
        ELSE IF q.fails = "plugin" THEN package_error(q)
        ELSE initial.value

\* mutant: the error of the search is returned to the caller
run_single_query_propagates(q) ==
    [err |-> IF search_app_run(q) = "Err" THEN "SearchError" ELSE "Ok",
     response |-> apply_output_processing(q, search_app_run(q))]

\* run_single_query(query, output_plugins, search_app): [err, response]
run_single_query(q) ==
    [err |-> "Ok", response |-> apply_output_processing(q, search_app_run(q))]

\* the queries of the list that place puts in batch b, in their order
RECURSIVE batch_of(_, _, _, _)
batch_of(queries, place, b, n) ==
    IF n = 0 THEN << >>
    ELSE LET front == batch_of(queries, place, b, n - 1)
         IN  IF place[n] = b THEN Append(front, queries[n]) ELSE front

\* the load-balanced inputs of run_batch_with_responses: every way to put
\* the queries into up to MaxWorkers batches
BalancedInputs ==
    UNION {{[b \in 1 .. p |-> batch_of(queries, place, b, Len(queries))] :
               place \in [DOMAIN queries -> 1 .. p]}
           : queries \in RunQueryLists, p \in 1 .. MaxWorkers}

\* std::cmp::max(1, (queries.len() as f64 / parallelism as f64).ceil() as
\* usize): for parallelism 0 the quotient is infinite and the cast saturates
chunk_size(n_queries, parallelism) ==
    IF parallelism = 0 THEN usize_max
    ELSE Max(1, (n_queries + parallelism - 1) \div parallelism)

\* queries.par_chunks(chunk_size): the chunks in order, the last one shorter
par_chunks(queries, size) ==
    LET count == IF size >= Len(queries) THEN 1
                 ELSE (Len(queries) + size - 1) \div size
    IN  [c \in 1 .. count |->
            SubSeq(queries, (c - 1) * size + 1, Min(c * size, Len(queries)))]

\* mutant: the lock is taken whoever holds it
can_lock_always(pb) == TRUE

\* pb.lock() returns when no other worker holds the lock
can_lock(pb) == pb.holder = 0

\* the state of a run over batches
StartRun(op, batches) ==
    [op |-> op, batches |-> batches,
     pc |-> [w \in DOMAIN batches |->
                IF batches[w] = << >> THEN "done" ELSE "query"],
     next |-> [w \in DOMAIN batches |-> 1],
     response |-> [w \in DOMAIN batches |-> NoResponse],
     responses |-> [w \in DOMAIN batches |-> << >>],
     n |-> [w \in DOMAIN batches |-> 0],
     err |-> [w \in DOMAIN batches |-> "Ok"],
     pb |-> [n |-> 0, holder |-> 0],
     sink |-> << >>,
     result |-> "running"]

InitRun ==
    /\ SearchIdle
    /\ LcssIdle
    /\ sched = NoSched
    /\ summary = NoSummary
    /\ \/ \E batches \in BalancedInputs :
             run = StartRun("run_batch_with_responses", batches)
       \/ \E queries \in RunQueryLists \ {<< >>}, parallelism \in 0 .. MaxWorkers :
             run = StartRun("run_batch",
                            par_chunks(queries,
                                       chunk_size(Len(queries), parallelism)))

Workers == DOMAIN run.batches

\* the query worker w is at
CurrentQuery(w) == run.batches[w][run.next[w]]

\* the worker goes on to its next query, or has done its batch
Advance(r, w) ==
    [r EXCEPT !.next[w] = @ + 1,
              !.pc[w] = IF r.next[w] + 1 > Len(r.batches[w]) THEN "done"
                        ELSE "query"]

\* the function f of run_batch, applied to a query
f(q) == Response(q.index, q.fails # "none")

\* run_single_query(q, ..)? or f(query): the response of the current query
RunSingleQuery(w) ==
    /\ run.pc[w] = "query"
    /\ LET r == IF run.op = "run_batch"
                THEN [err |-> "Ok", response |-> f(CurrentQuery(w))]
                ELSE run_single_query(CurrentQuery(w))
       IN  run' = IF r.err # "Ok"
                  THEN [run EXCEPT !.pc[w] = "failed", !.err[w] = r.err]
                  ELSE [run EXCEPT !.pc[w] = "lock", !.response[w] = r.response]
    /\ UNCHANGED <<searchVars, lcssVars, sched, summary>>

\* pb.lock(): the worker waits until it holds the lock
Lock(w) ==
    /\ run.pc[w] = "lock"
    /\ can_lock(run.pb)
    /\ run' = [run EXCEPT !.pc[w] = "update", !.pb.holder = w]
    /\ UNCHANGED <<searchVars, lcssVars, sched, summary>>

\* pb_local.update(1), first half: the counter is read
UpdateRead(w) ==
    /\ run.pc[w] = "update"
    /\ run' = [run EXCEPT !.pc[w] = "updating", !.n[w] = run.pb.n]
    /\ UNCHANGED <<searchVars, lcssVars, sched, summary>>

\* pb_local.update(1), second half: the counter is written
UpdateWrite(w) ==
    /\ run.pc[w] = "updating"
    /\ run' = [run EXCEPT !.pc[w] = "unlock", !.pb.n = run.n[w] + 1]
    /\ UNCHANGED <<searchVars, lcssVars, sched, summary>>

\* the guard pb_local is dropped at the end of the if; run_batch then
\* yields the result and goes on
Unlock(w) ==
    /\ run.pc[w] = "unlock"
    /\ LET unlocked == [run EXCEPT !.pb.holder = 0]
       IN  run' = IF run.op = "run_batch"
                  THEN Advance([unlocked EXCEPT
                                  !.responses[w] = Append(@, run.response[w])], w)
                  ELSE [unlocked EXCEPT !.pc[w] = "write"]
    /\ UNCHANGED <<searchVars, lcssVars, sched, summary>>

\* response_writer.write_response(&mut response)?; Ok(response)
WriteResponse(w) ==
    /\ run.pc[w] = "write"
    /\ \E written \in BOOLEAN :
          run' = IF written
                 THEN Advance([run EXCEPT
                                 !.sink = Append(@, run.response[w]),
                                 !.responses[w] = Append(@, run.response[w])], w)
                 ELSE [run EXCEPT !.pc[w] = "failed",
                                  !.err[w] = "write_response"]
    /\ UNCHANGED <<searchVars, lcssVars, sched, summary>>

\* collect::<Result<..>>() over the parallel iterator: once a batch has
\* failed, a batch that was not started may be left out
Skip(w) ==
    /\ run.pc[w] = "query"
    /\ run.next[w] = 1
    /\ \E v \in Workers : run.pc[v] = "failed"
    /\ run' = [run EXCEPT !.pc[w] = "skipped"]
    /\ UNCHANGED <<searchVars, lcssVars, sched, summary>>

\* every batch has ended: the result of the run
Collect ==
    /\ run.op # "idle"
    /\ run.result = "running"
    /\ \A w \in Workers : run.pc[w] \in {"done", "failed", "skipped"}
    /\ run' = [run EXCEPT !.result =
                  IF \E w \in Workers : run.pc[w] = "failed" THEN "Err"
                  ELSE "Ok"]
    /\ UNCHANGED <<searchVars, lcssVars, sched, summary>>

NextRun ==
    \/ \E w \in Workers :
          \/ RunSingleQuery(w)
          \/ Lock(w)
          \/ UpdateRead(w)
          \/ UpdateWrite(w)
          \/ Unlock(w)
          \/ WriteResponse(w)
          \/ Skip(w)
    \/ Collect

SpecRun == InitRun /\ [][NextRun]_vars

(* ----------------------- properties of batch runs ---------------------- *)
\* the queries of a run, of all batches
RunQueries == UNION {Range(run.batches[w]) : w \in Workers}

\* the responses the workers have kept, of all batches
RunResponses == UNION {Range(run.responses[w]) : w \in Workers}

\* the query was processed: its response was made and the bar updated
Processed(w) ==
    CASE run.pc[w] = "done" -> Len(run.batches[w])
      [] run.pc[w] = "failed" -> run.next[w]
      [] OTHER -> 0

RECURSIVE SumProcessed(_)
SumProcessed(W) ==
    IF W = {} THEN 0
    ELSE LET w == CHOOSE x \in W : TRUE
         IN  Processed(w) + SumProcessed(W \ {w})

\* C22: a query whose search or output processing fails gets a response
\* with the "error" key and does not abort the run: no batch fails unless
\* a response could not be written, and when the run returns, every query
\* of every batch has its own response, with the "error" key exactly if
\* the query failed.
C22_QueryFailuresAreResponses ==
    run.op = "run_batch_with_responses" =>
        /\ \A w \in Workers :
              run.pc[w] = "failed" => run.err[w] = "write_response"
        /\ run.result = "Ok" =>
              /\ \A q \in RunQueries :
                    Response(q.index, q.fails # "none") \in RunResponses
              /\ Cardinality(RunResponses) = Cardinality(RunQueries)
              /\ Range(run.sink) = RunResponses

\* the run returned: a query whose search failed was followed in its batch
\* by a query that succeeded, and another batch held a query whose output
\* plugin failed
C22_Witness ==
    /\ run.op = "run_batch_with_responses"
    /\ run.result = "Ok"
    /\ \E w, v \in Workers :
          /\ w # v
          /\ Len(run.responses[w]) = 2
          /\ run.responses[w][1].error
          /\ ~run.responses[w][2].error
          /\ run.batches[w][1].fails = "search"
          /\ Len(run.responses[v]) = 1
          /\ run.batches[v][1].fails = "plugin"
          /\ run.responses[v][1].error

\* C28: the progress bar is updated only by the worker that holds its
\* lock, no two workers are inside an update at the same time, and when
\* the run has ended the bar has advanced exactly once for every query
\* that was processed.
C28_UpdatesUnderLock ==
    /\ \A w \in Workers :
          run.pc[w] \in {"update", "updating", "unlock"} => run.pb.holder = w
    /\ \A w, v \in Workers :
          (w # v /\ run.pc[w] \in {"update", "updating", "unlock"})
              => run.pc[v] \notin {"update", "updating", "unlock"}
    /\ run.result # "running" => run.pb.n = SumProcessed(Workers)

\* a run of two batches with three queries in all has ended and the bar
\* stands at three
C28_Witness ==
    /\ run.result = "Ok"
    /\ Cardinality({w \in Workers : run.batches[w] # << >>}) = 2
    /\ run.pb.n = MaxRunQueries
    /\ run.pb.holder = 0

(* ======================================================================= *)
(*                 route output: the summary operations                    *)
(* ======================================================================= *)
\* SummaryOp
SummaryOps == {"sum", "avg", "last", "first", "min", "max"}

\* the field names of fieldname::*, and one name that is none of them
SumFields == {"edge_distance", "edge_time", "edge_turn_delay"}
AvgFields == {"edge_speed", "edge_grade", "ambient_temperature"}
LastFields == {"trip_distance", "trip_time", "trip_elevation_gain",
               "trip_elevation_loss"}
OtherFields == {"other"}
FieldNames == SumFields \cup AvgFields \cup LastFields \cup OtherFields

\* SummaryOp::default_summary_ops(): the operation of a name, if it has one
default_summary_ops(name) ==
    IF name \in SumFields THEN {"sum"}
    ELSE IF name \in AvgFields THEN {"avg"}
    ELSE IF name \in LastFields THEN {"last"}
    ELSE {}

\* HashMap::extend for one key: the new entry replaces the old one
extend(old, new) == IF new # {} THEN new ELSE old

\* Option::or_else
or_else(first, second) == IF first # {} THEN first ELSE second

\* the closure of unwrap_or_else: Last for an accumulator, else Sum
accumulator_default(is_accumulator) ==
    IF is_accumulator THEN "last" ELSE "sum"

\* Option::unwrap_or_else
unwrap_or_else(option, default) ==
    IF option # {} THEN CHOOSE op \in option : TRUE ELSE default

\* generate_route_output, lines 65-71: the operation for a state variable
generate_route_output_op(summary_ops, is_accumulator) ==
    unwrap_or_else(summary_ops, accumulator_default(is_accumulator))

\* RouteOutput::generate, lines 88-98: the operation for a state variable
generate_op(summary_ops, name, is_accumulator) ==
    unwrap_or_else(or_else(summary_ops, default_summary_ops(name)),
                   accumulator_default(is_accumulator))

\* the summary operations a caller hands over, for one name:
\* TraversalPlugin::process extends the plugin's own operations by those of
\* the request; convert_result_to_response hands over those of the request
caller_summary_ops(caller, plugin_op, request_op) ==
    IF caller = "TraversalPlugin::process" THEN extend(plugin_op, request_op)
    ELSE request_op

Callers == {"TraversalPlugin::process", "convert_result_to_response",
            "RouteOutput::generate"}

\* the accumulator flag a state model gives a name: the trip fields
\* accumulate, the edge fields and the temperature do not, and any other
\* variable may or may not
Accumulators(name) ==
    IF name \in LastFields THEN {TRUE}
    ELSE IF name \in OtherFields THEN BOOLEAN
    ELSE {FALSE}

InitSummary ==
    /\ SearchIdle
    /\ LcssIdle
    /\ sched = NoSched
    /\ run = NoRun
    /\ \E caller \in Callers, name \in FieldNames,
          plugin_op \in {{}} \cup {{op} : op \in SummaryOps},
          request_op \in {{}} \cup {{op} : op \in SummaryOps},
          route_is_empty \in BOOLEAN :
          /\ caller # "TraversalPlugin::process" => plugin_op = {}
          /\ \E is_accumulator \in Accumulators(name) :
                summary = [NoSummary EXCEPT
                             !.caller = caller, !.name = name,
                             !.is_accumulator = is_accumulator,
                             !.plugin_op = plugin_op,
                             !.request_op = request_op,
                             !.route_is_empty = route_is_empty]

\* the entry of traversal_summary for the state variable: none for an empty
\* route, else the operation that summarises it
Summarize ==
    /\ summary.caller # "idle"
    /\ ~summary.done
    /\ LET summary_ops == caller_summary_ops(summary.caller, summary.plugin_op,
                                             summary.request_op)
           op == IF summary.caller = "RouteOutput::generate"
                 THEN generate_op(summary_ops, summary.name,
                                  summary.is_accumulator)
                 ELSE generate_route_output_op(summary_ops,
                                               summary.is_accumulator)
       IN  summary' = [summary EXCEPT
                         !.done = TRUE,
                         !.op = IF summary.route_is_empty THEN {} ELSE {op}]
    /\ UNCHANGED <<searchVars, lcssVars, sched, run>>

NextSummary == Summarize

SpecSummary == InitSummary /\ [][NextSummary]_vars

(* ------------------- properties of the summary operations -------------- *)
\* the default operation of the specification for a state variable
DefaultOp(name, is_accumulator) ==
    IF name \in SumFields THEN "sum"
    ELSE IF name \in AvgFields THEN "avg"
    ELSE IF name \in LastFields THEN "last"
    ELSE IF is_accumulator THEN "last" ELSE "sum"

\* C23: for a state variable of a non-empty route for which neither the
\* request nor the plugin names an operation, the summary uses Sum for the
\* distance-like fields, Avg for the speed-like fields, Last for the trip
\* accumulators, and for any other variable Last if it is an accumulator
\* and Sum otherwise; an operation named in the request is the one used.
C23_DefaultSummaryOps ==
    (summary.done /\ ~summary.route_is_empty
     /\ summary.caller # "RouteOutput::generate") =>
        /\ (summary.request_op = {} /\ summary.plugin_op = {}) =>
              summary.op = {DefaultOp(summary.name, summary.is_accumulator)}
        /\ summary.request_op # {} => summary.op = summary.request_op

\* what generate_route_output does hold to: the operation of the request,
\* else that of the plugin, else Last for an accumulator and Sum otherwise
SummaryOpsWithoutTable ==
    (summary.done /\ ~summary.route_is_empty
     /\ summary.caller # "RouteOutput::generate") =>
        summary.op =
            {unwrap_or_else(or_else(summary.request_op, summary.plugin_op),
                            IF summary.is_accumulator THEN "last" ELSE "sum")}

\* RouteOutput::generate, which no caller uses, does look the name up in
\* the table of defaults
SummaryOpsOfGenerate ==
    (summary.done /\ ~summary.route_is_empty
     /\ summary.caller = "RouteOutput::generate") =>
        summary.op =
            {unwrap_or_else(summary.request_op,
                            DefaultOp(summary.name, summary.is_accumulator))}

====
